---- MODULE Spec2Model ----
(***************************************************************************)
(* Telemetry reconciliation engine of the maintenance module: the TrueNAS  *)
(* protocol client (backend/src/services/TrueNASConnector.ts), its IPMI    *)
(* poll sub-loop and the caches it keeps.                                  *)
(*                                                                         *)
(* The connector object is handled as a record `o` of its fields; every    *)
(* method of the class is an operator from such a record to the record     *)
(* after the call, so that the statements of a method run in their source  *)
(* order and an exception (field `thrown`) cuts the rest of a handler off. *)
(* An action of the model is one event-loop callback run to completion.    *)
(***************************************************************************)
EXTENDS Integers, Sequences, FiniteSets, TLC

\* ------------------------------------------------------------------ bounds
MaxSockets == 2     \* socket objects alive at once (ids are reused once detached)
MaxRecv == 2        \* messages the appliance delivers on one connection
MaxPolls == 1       \* interval ticks of the poll timer on one connection
MaxAttempts == 2    \* the connect() counter saturates here

\* ------------------------------------------------------- program constants
ReconnectDelayMs == 5000
PollIntervalMs == 15000

SockIds == 1..MaxSockets

\* --------------------------------------------------------------- JS values
\* A JavaScript value, tagged with its type. A string the client only
\* compares whole is kept as a TLA+ string (JStr); one it searches or parses
\* (a sensor's name, its reading) as its characters (JText).
JUndef == [t |-> "undef"]
JNull == [t |-> "null"]
JBool(b) == [t |-> "bool", b |-> b]
JNum(n) == [t |-> "num", n |-> n]
JStr(s) == [t |-> "str", s |-> s]
JObj(r) == [t |-> "obj", o |-> r]
JList(q) == [t |-> "list", items |-> q]
JText(q) == [t |-> "text", q |-> q]
JNaN == [t |-> "nan"]
JInf == [t |-> "inf"]
\* an object whose properties are enumerated (Object.values, Object.entries)
JOrd(entries) == [t |-> "ord", entries |-> entries]
EmptyObject == [t |-> "empty"]

\* ToBoolean(v): what `if (v)` and `a && b` test.
Truthy(v) ==
  CASE v.t = "undef" -> FALSE
    [] v.t = "null" -> FALSE
    [] v.t = "bool" -> v.b
    [] v.t = "num" -> v.n # 0
    [] v.t = "str" -> v.s # ""
    [] v.t = "text" -> v.q # <<>>
    [] v.t = "nan" -> FALSE
    [] OTHER -> TRUE

\* v.f for a value that is not null or undefined.
Get(v, f) == IF v.t = "obj" /\ f \in DOMAIN v.o THEN v.o[f] ELSE JUndef

\* msg.result === true
IsTrue(v) == v.t = "bool" /\ v.b

\* A message id: a string written as prefix and rest, a number, or no id.
StrId(pre, suf) == [t |-> "str", pre |-> pre, suf |-> suf]
NumId(n) == [t |-> "num", n |-> n]
NoId == [t |-> "undef"]

\* msg.id === s, for the fixed ids the client uses
IdIs(id, s) == id.t = "str" /\ id.pre = s /\ id.suf = ""
\* msg.id (as a condition)
IdTruthy(id) ==
  CASE id.t = "str" -> ~(id.pre = "" /\ id.suf = "")
    [] id.t = "num" -> id.n # 0
    [] OTHER -> FALSE
\* msg.id.startsWith(p), for a string id
IdStartsWith(id, p) == id.pre = p

\* generateId(): a random base-36 string; the client never reads one back
\* (results are matched by prefix), so one representative stands for all.
generateId == "rnd"

\* ---------------------------------------------------------------- messages
\* Incoming frames, as JSON.parse sees them.
Garbage == [ok |-> FALSE]
JsonNull == [ok |-> TRUE, obj |-> FALSE]
Json(msg, id, result, collection, fields) ==
  [ok |-> TRUE, obj |-> TRUE, msg |-> msg, id |-> id, result |-> result,
   collection |-> collection, fields |-> fields]

ResultMsg(id, result) == Json("result", id, result, "", JUndef)
PingMsg(p) == Json("ping", StrId(p, ""), JUndef, "", JUndef)

AuthOk == ResultMsg(StrId("auth_request", ""), JBool(TRUE))
AuthFail == ResultMsg(StrId("auth_request", ""), JBool(FALSE))
AuthError == ResultMsg(StrId("auth_request", ""), JUndef)
Connected == Json("connected", NoId, JUndef, "", JUndef)
NumericIdResult == ResultMsg(NumId(7), JBool(TRUE))

PingIds == {"p1", "p2"}

PushMsg(kind, fields) == Json(kind, NoId, JUndef, "reporting.realtime", fields)
ChassisResult(v) == ResultMsg(StrId("ipmi_chassis_", generateId), v)
SensorsResult(v) == ResultMsg(StrId("ipmi_sensors_", generateId), v)
SysInfoResult(v) == ResultMsg(StrId("sys_info_request", ""), v)

\* Frames of an unexpected shape: a sensor result that is no list, a sensor
\* entry without a name, a push without fields.
Sensor(name, type, units, reading) ==
  JObj([name |-> JText(name), type |-> JStr(type), units |-> JStr(units),
        reading |-> reading])
TextSensorsResult == SensorsResult(JText(<<"b", "u", "s", "y">>))
NamelessSensorResult ==
  SensorsResult(JList(<<JObj([type |-> JStr("Fan"), reading |-> JText(<<"9", "0", "0">>)])>>))
PushWithoutFields == PushMsg("changed", JUndef)
Malformed == {Garbage, JsonNull, NumericIdResult, TextSensorsResult,
              NamelessSensorResult, PushWithoutFields}

IsAuthResult(m) == m.ok /\ m.obj /\ m.msg = "result" /\ IdIs(m.id, "auth_request")

\* ----------------------------------------------------------------- strings

UpperCase == <<"A", "B", "C", "D", "E", "F", "G", "H", "I", "J", "K", "L", "M",
               "N", "O", "P", "Q", "R", "S", "T", "U", "V", "W", "X", "Y", "Z">>
LowerCase == <<"a", "b", "c", "d", "e", "f", "g", "h", "i", "j", "k", "l", "m",
               "n", "o", "p", "q", "r", "s", "t", "u", "v", "w", "x", "y", "z">>
Digits == <<"0", "1", "2", "3", "4", "5", "6", "7", "8", "9">>

LowerChar(c) ==
  IF \E i \in 1..Len(UpperCase) : UpperCase[i] = c
  THEN LowerCase[CHOOSE i \in 1..Len(UpperCase) : UpperCase[i] = c]
  ELSE c
toLowerCase(q) == [i \in 1..Len(q) |-> LowerChar(q[i])]
includes(q, p) == \E i \in 0..(Len(q) - Len(p)) : SubSeq(q, i + 1, i + Len(p)) = p
startsWith(q, p) == Len(p) <= Len(q) /\ SubSeq(q, 1, Len(p)) = p

IsDigit(c) == \E i \in 1..Len(Digits) : Digits[i] = c
DigitVal(c) == (CHOOSE i \in 1..Len(Digits) : Digits[i] = c) - 1
\* number of leading digits of q
LeadingDigits(q) ==
  IF \A i \in 1..Len(q) : IsDigit(q[i])
  THEN Len(q)
  ELSE (CHOOSE i \in 1..Len(q) : ~IsDigit(q[i]) /\ \A j \in 1..(i - 1) : IsDigit(q[j])) - 1
RECURSIVE DecimalValue(_)
DecimalValue(q) ==
  IF q = <<>> THEN 0 ELSE 10 * DecimalValue(SubSeq(q, 1, Len(q) - 1)) + DigitVal(q[Len(q)])
RECURSIVE DecimalText(_)
DecimalText(n) ==
  IF n < 10 THEN <<Digits[n + 1]>> ELSE Append(DecimalText(n \div 10), Digits[(n % 10) + 1])

\* parseFloat(v), for text without sign, fraction or exponent: the leading
\* digits, NaN when there are none.
parseFloat(v) ==
  CASE v.t = "num" -> v
    [] v.t = "text" ->
         IF LeadingDigits(v.q) = 0 THEN JNaN
         ELSE JNum(DecimalValue(SubSeq(v.q, 1, LeadingDigits(v.q))))
    [] OTHER -> JNaN

\* String(v || "").toLowerCase()
StatusText(v) ==
  CASE ~Truthy(v) -> <<>>
    [] v.t = "text" -> toLowerCase(v.q)
    [] v.t = "num" -> DecimalText(v.n)
    [] v.t = "bool" -> <<"t", "r", "u", "e">>
    [] OTHER -> <<"[", "o", "b", "j", "e", "c", "t", "]">>

\* v > 0 (false for NaN and for what is no number)
Positive(v) == v.t = "num" /\ v.n > 0

\* the string literals the sensor classification searches for
T ==
  [NA |-> <<"N", "/", "A">>,
   na |-> <<"n", "/", "a">>,
   pwr_consumption |-> <<"p", "w", "r", " ", "c", "o", "n", "s", "u", "m", "p", "t", "i", "o", "n">>,
   system_power |-> <<"s", "y", "s", "t", "e", "m", " ", "p", "o", "w", "e", "r">>,
   total_power |-> <<"t", "o", "t", "a", "l", "_", "p", "o", "w", "e", "r">>,
   v3_3 |-> <<"3", ".", "3", "v">>,
   v5 |-> <<"5", "v">>,
   v12 |-> <<"1", "2", "v">>,
   batt |-> <<"b", "a", "t", "t">>,
   dual |-> <<"d", "u", "a", "l">>,
   psu |-> <<"p", "s", "u">>,
   power |-> <<"p", "o", "w", "e", "r">>,
   status |-> <<"s", "t", "a", "t", "u", "s">>,
   supply |-> <<"s", "u", "p", "p", "l", "y">>,
   ok |-> <<"o", "k">>,
   presence |-> <<"p", "r", "e", "s", "e", "n", "c", "e">>,
   fan_ |-> <<"f", "a", "n", "_">>,
   cpu |-> <<"c", "p", "u">>,
   temp |-> <<"t", "e", "m", "p">>,
   inlet |-> <<"i", "n", "l", "e", "t">>,
   intake |-> <<"i", "n", "t", "a", "k", "e">>,
   exhaust |-> <<"e", "x", "h", "a", "u", "s", "t">>,
   ambient |-> <<"a", "m", "b", "i", "e", "n", "t">>,
   system_temp |-> <<"s", "y", "s", "t", "e", "m", " ", "t", "e", "m", "p">>]

\* ------------------------------------------------------------ IPMI mapping
MapSeq(q, F(_)) == [i \in 1..Len(q) |-> F(q[i])]
MaxOf(S) == CHOOSE x \in S : \A y \in S : y <= x
\* the value F gives for the last element of q that satisfies P, else d
LastOf(q, P(_), F(_), d) ==
  LET hits == {i \in 1..Len(q) : P(q[i])}
  IN IF hits = {} THEN d ELSE F(q[MaxOf(hits)])

\* s.name.toLowerCase() throws for an entry that is null or has no string name
NameThrows(sn) == sn.t \in {"undef", "null"} \/ Get(sn, "name").t # "text"
SensorName(sn) == toLowerCase(Get(sn, "name").q)
\* let val = 0; if (s.reading !== "N/A") val = parseFloat(s.reading)
SensorVal(sn) ==
  IF Get(sn, "reading") # JText(T.NA) THEN parseFloat(Get(sn, "reading")) ELSE JNum(0)

IsPowerSensor(sn) ==
  \/ includes(SensorName(sn), T.pwr_consumption)
  \/ includes(SensorName(sn), T.system_power)
  \/ includes(SensorName(sn), T.total_power)
IsRail33(sn) == includes(SensorName(sn), T.v3_3) /\ ~includes(SensorName(sn), T.batt)
IsRail5(sn) == includes(SensorName(sn), T.v5) /\ ~includes(SensorName(sn), T.dual)
IsRail12(sn) == includes(SensorName(sn), T.v12)
IsPsuStatusSensor(sn) ==
  /\ includes(SensorName(sn), T.psu)
  /\ includes(SensorName(sn), T.status) \/ includes(SensorName(sn), T.supply)
IsPsuPowerSensor(sn) ==
  includes(SensorName(sn), T.psu) /\ includes(SensorName(sn), T.power)
IsFanSensor(sn) ==
  \/ Get(sn, "type") = JStr("Fan")
  \/ Get(sn, "units") = JStr("RPM")
  \/ startsWith(SensorName(sn), T.fan_)
IsCpuFan(sn) == IsFanSensor(sn) /\ includes(SensorName(sn), T.cpu)
IsCaseFan(sn) == IsFanSensor(sn) /\ ~includes(SensorName(sn), T.cpu)
IsTempSensor(sn) == Get(sn, "type") = JStr("Temperature") \/ Get(sn, "units") = JStr("C")

\* The status of a PSU status sensor with "N/A" taken for a warning
PsuStatusOf_NaWarns(sn) ==
  LET statusVal == StatusText(Get(sn, "reading"))
  IN IF statusVal = T.na THEN "warning"
     ELSE IF includes(statusVal, T.ok) \/ includes(statusVal, T.presence) THEN "healthy"
     ELSE "critical"

\* the status pushed for a PSU status sensor
PsuStatusOf(sn) ==
  LET statusVal == StatusText(Get(sn, "reading"))
  IN IF statusVal = T.na THEN "critical"
     ELSE IF includes(statusVal, T.ok) \/ includes(statusVal, T.presence) THEN "healthy"
     ELSE "critical"
\* the status pushed for a PSU power sensor in the post-processing pass
PsuPowerStatusOf(sn) ==
  LET v == IF Get(sn, "reading") = JText(T.NA) THEN JNum(0)
           ELSE parseFloat(Get(sn, "reading"))
  IN IF Positive(v) THEN "healthy" ELSE "critical"

FanData(sn) ==
  [label |-> Get(sn, "name"), current_rpm |-> SensorVal(sn), max_rpm |-> 0,
   status |-> IF Positive(SensorVal(sn)) THEN "normal" ELSE "stopped",
   is_simulated |-> FALSE]

Fans(sensors) ==
  [cpu_fans |-> MapSeq(SelectSeq(sensors, IsCpuFan), FanData),
   case_fans |-> MapSeq(SelectSeq(sensors, IsCaseFan), FanData)]

\* mapIPMIPower(sensors, chassis), for sensors none of which throws
mapIPMIPower(sensors, chassis) ==
  LET fromStatus == MapSeq(SelectSeq(sensors, IsPsuStatusSensor), PsuStatusOf)
      fromPower == MapSeq(SelectSeq(sensors, IsPsuPowerSensor), PsuPowerStatusOf)
      post == fromStatus = <<>> \/ \A i \in 1..Len(fromStatus) : fromStatus[i] = "critical"
      derived == IF post THEN fromStatus \o fromPower ELSE fromStatus
      count1 == IF post /\ Len(derived) > 0 THEN Len(derived) ELSE Len(fromStatus)
      fault == Get(chassis, "power_fault") = JStr("true")
                 \/ Get(chassis, "power_fault") = JBool(TRUE)
      psu_status == IF derived = <<>>
                    THEN (IF fault THEN <<"critical">> ELSE <<"healthy">>)
                    ELSE derived
      psu_count == IF derived = <<>> THEN 1 ELSE count1
  IN [is_simulated |-> FALSE,
      psu_status |-> psu_status,
      psu_count |-> psu_count,
      power_consumption_watts |-> LastOf(sensors, IsPowerSensor, SensorVal, JNum(0)),
      power_consumption_peak_watts |-> 0,
      power_efficiency_percent |-> 90,
      voltage_levels |->
        [v3_3 |-> LastOf(sensors, IsRail33, SensorVal, JNum(0)),
         v5 |-> LastOf(sensors, IsRail5, SensorVal, JNum(0)),
         v12 |-> LastOf(sensors, IsRail12, SensorVal, JNum(0)),
         v3_3_fluctuation |-> 0, v5_fluctuation |-> 0, v12_fluctuation |-> 0],
      voltage_stability |-> "stable",
      fans |-> Fans(sensors)]

IsIntake(sn) ==
  IsTempSensor(sn) /\ (includes(SensorName(sn), T.inlet) \/ includes(SensorName(sn), T.intake))
IsExhaust(sn) == IsTempSensor(sn) /\ includes(SensorName(sn), T.exhaust)
IsAmbient(sn) ==
  IsTempSensor(sn)
    /\ (includes(SensorName(sn), T.ambient) \/ includes(SensorName(sn), T.system_temp))
SensorValueField(sn) == Get(sn, "value")

\* mapIPMIEnvironment(sensors, chassis), for sensors none of which throws
mapIPMIEnvironment(sensors, chassis) ==
  LET ambient == LastOf(sensors, IsAmbient, SensorValueField, JNum(0))
      intrusion == Get(chassis, "chassis_intrusion") = JStr("active")
  IN [is_simulated |-> FALSE,
      temperature |->
        [ambient_celsius |-> IF Truthy(ambient) THEN ambient ELSE JNum(22),
         intake_celsius |-> LastOf(sensors, IsIntake, SensorValueField, JNum(0)),
         exhaust_celsius |-> LastOf(sensors, IsExhaust, SensorValueField, JNum(0))],
      cooling |-> [fans |-> Fans(sensors).cpu_fans \o Fans(sensors).case_fans],
      chassis |-> [intrusion_detected |-> intrusion,
                   door_status |-> IF intrusion THEN "open" ELSE "closed"]]

\* mapIPMISecurity(chassis)
mapIPMISecurity(chassis) == [is_simulated |-> FALSE]

\* The positive CPU temperatures among the sensors (both back-fill sites).
IsCpuTempSensor(sn) ==
  /\ includes(SensorName(sn), T.cpu)
  /\ includes(SensorName(sn), T.temp)
  /\ Get(sn, "type") = JStr("Temperature")
CpuTempOf(sn) ==
  IF Get(sn, "reading") = JText(T.NA) THEN JNum(0) ELSE parseFloat(Get(sn, "reading"))
cpuTemps(sensors) == SelectSeq(MapSeq(SelectSeq(sensors, IsCpuTempSensor), CpuTempOf), Positive)
MaxTemp(temps) == JNum(MaxOf({temps[i].n : i \in 1..Len(temps)}))

\* ------------------------------------------------------------------ tokens
\* The configured token with the text Buffer.from(token, "base64") gives.
Tokens ==
  { [text |-> "1-k", dashOne |-> TRUE, decoded |-> <<"u", ":", "p">>],
    [text |-> "dTpw", dashOne |-> FALSE, decoded |-> <<"u", ":", "p">>],
    [text |-> "key", dashOne |-> FALSE, decoded |-> <<"k", "e">>],
    [text |-> "dTo=", dashOne |-> FALSE, decoded |-> <<"u", ":">>],
    [text |-> "OnA=", dashOne |-> FALSE, decoded |-> <<":", "p">>] }

VARIABLES
  booted,            \* SystemInfoService has constructed the connector and called connect()
  token,             \* this.token
  ws,                \* this.ws: a socket id, 0 for null
  sock,              \* the socket objects: readyState and whether our listeners are attached
  isConnected,       \* this.isConnected
  isAuthenticated,   \* this.isAuthenticated
  ipmiInterval,      \* this.ipmiInterval: "null", or a handle that is "live" or "cleared"
  pollTimers,        \* number of interval timers the event loop still runs
  reconnectTimers,   \* delays of the pending setTimeout(connect) timers
  wire,              \* per socket: frames received and sent, and timer ticks, in order
  attempts,          \* connect() calls so far (saturating)
  crashed,           \* an exception escaped a callback (uncaught: the process ends)
  hostname,          \* this.hostname
  ipmiSensors,       \* this.ipmiSensors
  ipmiChassis,       \* this.ipmiChassis
  latestMetrics,     \* this.latestMetrics
  latestEnvironment, \* this.latestEnvironment
  isCollecting,      \* SystemInfoService.isCollecting
  collecting,        \* collectMetrics() calls of the loop that await their readings
  currentMetrics,    \* SystemInfoService.currentMetrics
  trendHistory,      \* SystemInfoService.trendHistory
  now,               \* the clock, in ms
  lastCycle,         \* how the collection that ended last ended: "none", "ok", "failed"
  calls,             \* the getSystemMetrics() calls of the status route
  trends,            \* the dashboard's trends state (the last /trends response)
  timeRange,         \* HardwareTrends' timeRange state, in minutes
  chart,             \* what the last render of HardwareTrends handed to the charts
  inflight           \* the collectMetrics() calls that await their readings, in the
                     \* order they were called: whose call, and whether a call made
                     \* later has already stored its snapshot

vars == <<booted, token, ws, sock, isConnected, isAuthenticated, ipmiInterval,
          pollTimers, reconnectTimers, wire, attempts, crashed, hostname,
          ipmiSensors, ipmiChassis, latestMetrics, latestEnvironment,
          isCollecting, collecting, currentMetrics, trendHistory, now, lastCycle,
          calls, trends, timeRange, chart, inflight>>

\* the state outside the connector: the service, its callers and the clock
svcVars == <<isCollecting, collecting, currentMetrics, trendHistory, now,
             lastCycle, calls, trends, timeRange, chart, inflight>>

\* ------------------------------------------------------------ the object
\* F applied to the value of v, v evaluated once: `const x = v; F(x)`
Bind(v, F(_)) == CHOOSE r \in {F(x) : x \in {v}} : TRUE

Self ==
  [ws |-> ws, sock |-> sock, isConnected |-> isConnected,
   isAuthenticated |-> isAuthenticated, ipmiInterval |-> ipmiInterval,
   pollTimers |-> pollTimers, reconnectTimers |-> reconnectTimers,
   wire |-> wire, attempts |-> attempts, hostname |-> hostname,
   ipmiSensors |-> ipmiSensors, ipmiChassis |-> ipmiChassis,
   latestMetrics |-> latestMetrics, latestEnvironment |-> latestEnvironment,
   thrown |-> FALSE]

Commit(r) ==
  \E o \in {r} :
  /\ ~crashed
  /\ crashed' = o.thrown
  /\ ipmiSensors' = o.ipmiSensors
  /\ ipmiChassis' = o.ipmiChassis
  /\ latestMetrics' = o.latestMetrics
  /\ latestEnvironment' = o.latestEnvironment
  /\ ws' = o.ws
  /\ sock' = o.sock
  /\ isConnected' = o.isConnected
  /\ isAuthenticated' = o.isAuthenticated
  /\ ipmiInterval' = o.ipmiInterval
  /\ pollTimers' = o.pollTimers
  /\ reconnectTimers' = o.reconnectTimers
  /\ wire' = o.wire
  /\ attempts' = o.attempts
  /\ hostname' = o.hostname
  /\ UNCHANGED <<booted, token, svcVars>>

In(m) == [dir |-> "in", m |-> m]
Out(p) == [dir |-> "out", m |-> p]
\* A timer tick, with the readyState of this.ws when the callback ran.
TickAt(rs) == [dir |-> "tick", readyState |-> rs]

Min(a, b) == IF a < b THEN a ELSE b

\* A socket object nobody listens to and this.ws does not name is garbage.
FreeIds(o) == {s \in SockIds : s # o.ws /\ ~o.sock[s].listeners}

\* ws.close(): CONNECTING and OPEN sockets start closing.
closeSocket(sk) ==
  [sk EXCEPT !.readyState = IF @ \in {"CONNECTING", "OPEN"} THEN "CLOSING" ELSE @]

\* send(payload)
send(o, payload) ==
  IF o.ws # 0 /\ o.sock[o.ws].readyState = "OPEN"
  THEN [o EXCEPT !.wire[o.ws] = Append(@, Out(payload))]
  ELSE o

\* connect()
connect(o) ==
  LET o1 == IF o.ws # 0
            THEN [o EXCEPT !.sock[o.ws] =
                    closeSocket([@ EXCEPT !.listeners = FALSE]),
                  !.wire[o.ws] = <<>>]          \* the old socket is dropped
            ELSE o
      n == CHOOSE s \in FreeIds(o1) : \A r \in FreeIds(o1) : s <= r
  IN [o1 EXCEPT !.sock[n] = [readyState |-> "CONNECTING", listeners |-> TRUE],
                !.ws = n,
                !.wire[n] = <<>>,
                !.attempts = Min(@ + 1, MaxAttempts)]

\* The authenticate request with a login for every decoded text with a colon
authRequest_AnyColon(tk) ==
  IF (\E i \in 1..Len(tk.decoded) : tk.decoded[i] = ":") /\ ~tk.dashOne
  THEN LET c == CHOOSE i \in 1..Len(tk.decoded) :
                  tk.decoded[i] = ":" /\ \A j \in 1..(i - 1) : tk.decoded[j] # ":"
       IN [msg |-> "method", id |-> StrId("auth_request", ""), method |-> "auth.login",
           params |-> <<SubSeq(tk.decoded, 1, c - 1),
                        SubSeq(tk.decoded, c + 1, Len(tk.decoded))>>]
  ELSE [msg |-> "method", id |-> StrId("auth_request", ""),
        method |-> "auth.login_with_api_key", params |-> <<tk.text>>]

\* The credential form onOpen chooses.
HasColon(q) == \E i \in 1..Len(q) : q[i] = ":"
FirstColon(q) == CHOOSE i \in 1..Len(q) : q[i] = ":" /\ \A j \in 1..(i - 1) : q[j] # ":"
authRequest(tk) ==
  LET d == tk.decoded
      login == /\ HasColon(d)
               /\ ~tk.dashOne
               /\ FirstColon(d) > 1              \* user
               /\ FirstColon(d) < Len(d)         \* pass
  IN IF login
     THEN [msg |-> "method", id |-> StrId("auth_request", ""), method |-> "auth.login",
           params |-> <<SubSeq(d, 1, FirstColon(d) - 1),
                        SubSeq(d, FirstColon(d) + 1, Len(d))>>]
     ELSE [msg |-> "method", id |-> StrId("auth_request", ""),
           method |-> "auth.login_with_api_key", params |-> <<tk.text>>]

HandshakeReq == [msg |-> "connect", version |-> "1", support |-> <<"1">>]
SysInfoReq == [msg |-> "method", id |-> StrId("sys_info_request", ""),
               method |-> "system.info", params |-> <<>>]
SubReq == [msg |-> "sub", id |-> StrId("", generateId), name |-> "reporting.realtime"]
ChassisReq == [msg |-> "method", id |-> StrId("ipmi_chassis_", generateId),
               method |-> "ipmi.chassis.info", params |-> <<>>]
SensorsReq == [msg |-> "method", id |-> StrId("ipmi_sensors_", generateId),
               method |-> "ipmi.sensors.query", params |-> <<>>]
Pong(id) == [msg |-> "pong", id |-> id]

\* -------------------------------------------------------- realtime mapping
RECURSIVE Gcd(_, _)
Gcd(a, b) == IF b = 0 THEN a ELSE Gcd(b, a % b)
\* a / b for numbers a, b >= 0, exact (no floating-point rounding)
Div(a, b) ==
  IF a.t # "num" \/ b.t # "num" THEN JNaN
  ELSE IF b.n = 0 THEN (IF a.n = 0 THEN JNaN ELSE JInf)
  ELSE IF a.n % b.n = 0 THEN JNum(a.n \div b.n)
  ELSE [t |-> "frac", num |-> a.n \div Gcd(a.n, b.n), den |-> b.n \div Gcd(a.n, b.n)]
\* v * k
Times(v, k) ==
  CASE v.t = "num" -> JNum(v.n * k)
    [] v.t = "frac" -> Div(JNum(v.num * k), JNum(v.den))
    [] OTHER -> v
\* a - b
Minus(a, b) == IF a.t = "num" /\ b.t = "num" THEN JNum(a.n - b.n) ELSE JNaN
\* v || 0
OrZero(v) == IF Truthy(v) THEN v ELSE JNum(0)
\* Number(v)
Number(v) ==
  CASE v.t = "num" -> v
    [] v.t = "null" -> JNum(0)
    [] v.t = "bool" -> JNum(IF v.b THEN 1 ELSE 0)
    [] v.t = "text" ->
         IF LeadingDigits(v.q) = Len(v.q) THEN JNum(DecimalValue(v.q)) ELSE JNaN
    [] OTHER -> JNaN
\* Math.max(...q) of a non-empty list of numbers: NaN if any is
MathMax(q) ==
  IF \E i \in 1..Len(q) : q[i].t # "num" THEN JNaN
  ELSE JNum(MaxOf({q[i].n : i \in 1..Len(q)}))
RECURSIVE Sum(_)
Sum(q) == IF q = <<>> THEN 0 ELSE q[1] + Sum(Tail(q))
\* Object.values(v || {})
ObjectValues(v) ==
  CASE v.t = "ord" -> [i \in 1..Len(v.entries) |-> v.entries[i].v]
    [] v.t = "list" -> v.items
    [] OTHER -> <<>>
\* Object.entries(v || {})
ObjectEntries(v) == IF v.t = "ord" THEN v.entries ELSE <<>>

GiB == 1073741824

ZeroTimes == [user |-> 0, system |-> 0, idle |-> 0, nice |-> 0, iowait |-> 0,
              irq |-> 0, softirq |-> 0]
ZeroCPU ==
  [utilization_percent |-> JNum(0), per_core_utilization |-> <<>>,
   load_average |-> <<0, 0, 0>>, core_count |-> 0, physical_core_count |-> 0,
   frequency_mhz |-> [base |-> 0, current |-> 0, turbo_active |-> FALSE],
   temperature_celsius |-> [package |-> JNum(0), cores |-> <<>>],
   thermal_throttling_events |-> 0, power_consumption_watts |-> 0,
   times_percent |-> ZeroTimes]

\* c.idle on an entry that is null or undefined throws
CoreThrows(c) == c.t \in {"undef", "null"}
CoreLoad(c) == Minus(JNum(100), OrZero(Get(c, "idle")))
mapCPUThrows(cpuData) ==
  cpuData.t = "list" /\ \E i \in 1..Len(cpuData.items) : CoreThrows(cpuData.items[i])
\* mapCPU(cpuData, tempData), when it does not throw
mapCPU(cpuData, tempData) ==
  IF cpuData.t # "list" \/ cpuData.items = <<>>
  THEN ZeroCPU
  ELSE LET cores == MapSeq(cpuData.items, CoreLoad)
           total == IF \E i \in 1..Len(cores) : cores[i].t # "num" THEN JNaN
                    ELSE JNum(Sum([i \in 1..Len(cores) |-> cores[i].n]))
           coreTemps == MapSeq(ObjectValues(tempData), Number)
       IN [utilization_percent |-> Div(total, JNum(Len(cores))),
           per_core_utilization |-> cores,
           load_average |-> <<0, 0, 0>>,
           core_count |-> Len(cores),
           physical_core_count |-> Len(cores),
           frequency_mhz |-> [base |-> 0, current |-> 0, turbo_active |-> FALSE],
           temperature_celsius |->
             [package |-> IF Len(coreTemps) > 0 THEN MathMax(coreTemps) ELSE JNum(0),
              cores |-> coreTemps],
           thermal_throttling_events |-> 0, power_consumption_watts |-> 0,
           times_percent |-> ZeroTimes]

\* mapMemory(vm, zfs)
mapMemory(vm, zfs) ==
  IF ~Truthy(vm)
  THEN EmptyObject
  ELSE LET total == OrZero(Get(vm, "total"))
           used == OrZero(Get(vm, "used"))
       IN [total_gb |-> Div(total, JNum(GiB)),
           used_gb |-> Div(used, JNum(GiB)),
           available_gb |-> Div(Minus(total, used), JNum(GiB)),
           swap_used_gb |-> JNum(0), swap_total_gb |-> JNum(0),
           usage_percent |-> Times(Div(used, total), 100),
           page_faults_rate |-> 0,
           memory_errors |-> [corrected |-> 0, uncorrected |-> 0]]

\* s.link_state on stats that are null or undefined throws
mapNetworkThrows(interfaces) ==
  \E i \in 1..Len(ObjectEntries(interfaces)) :
    ObjectEntries(interfaces)[i].v.t \in {"undef", "null"}
Interface(e) ==
  [name |-> e.k,
   status |-> IF Get(e.v, "link_state") = JStr("LINK_STATE_UP") THEN "up" ELSE "down",
   speed_mbps |-> OrZero(Get(e.v, "speed")),
   duplex |-> "unknown", mtu |-> 0,
   rx_bytes_per_sec |-> OrZero(Get(e.v, "received_bytes_rate")),
   tx_bytes_per_sec |-> OrZero(Get(e.v, "sent_bytes_rate")),
   rx_packets_per_sec |-> 0, tx_packets_per_sec |-> 0,
   rx_errors |-> 0, tx_errors |-> 0, rx_dropped |-> 0, tx_dropped |-> 0,
   addresses |-> <<>>]
\* mapNetwork(interfaces), when it does not throw
mapNetwork(interfaces) ==
  [interfaces |-> MapSeq(ObjectEntries(interfaces), Interface),
   active_connections |-> [tcp_established |-> 0, tcp_listen |-> 0, udp_active |-> 0]]

\* Iterating the stored sensor list throws: it is no list, or an entry has no name.
SensorsThrow(v) ==
  \/ v.t # "list"
  \/ \E i \in 1..Len(v.items) : NameThrows(v.items[i])

\* cpu with its temperature taken from the IPMI sensors, if any is positive
WithIpmiTemp(cpu, sensors) ==
  Bind(cpuTemps(sensors), LAMBDA temps :
    IF temps # <<>>
    THEN [cpu EXCEPT !.temperature_celsius =
            [package |-> MaxTemp(temps), cores |-> temps]]
    ELSE cpu)

\* (mutant) the new cache is built from the push alone
processRealtimeData_DropIpmi(o, fields) ==
  [o EXCEPT !.latestMetrics =
     [cpu |-> mapCPU(Get(fields, "cpu"), Get(fields, "temperature_celsius")),
      memory |-> mapMemory(Get(fields, "virtual_memory"), Get(fields, "zfs")),
      network |-> mapNetwork(Get(fields, "interfaces")),
      power |-> JUndef, security |-> JUndef]]

\* processRealtimeData(fields)
processRealtimeData(o, fields) ==
  IF \/ fields.t \in {"undef", "null"}
     \/ mapCPUThrows(Get(fields, "cpu"))
     \/ mapNetworkThrows(Get(fields, "interfaces"))
  THEN [o EXCEPT !.thrown = TRUE]
  ELSE Bind(mapCPU(Get(fields, "cpu"), Get(fields, "temperature_celsius")), LAMBDA cpu :
         Bind(cpu.temperature_celsius.package = JNum(0) /\ Truthy(o.ipmiSensors), LAMBDA fix :
           IF fix /\ SensorsThrow(o.ipmiSensors)
           THEN [o EXCEPT !.thrown = TRUE]
           ELSE [o EXCEPT !.latestMetrics =
                   [@ EXCEPT !.cpu = IF fix THEN WithIpmiTemp(cpu, o.ipmiSensors.items)
                                     ELSE cpu,
                             !.memory = mapMemory(Get(fields, "virtual_memory"),
                                                  Get(fields, "zfs")),
                             !.network = mapNetwork(Get(fields, "interfaces"))]]))

\* x || [] and x || {} for the stored payloads
OrEmptyList(v) == IF Truthy(v) THEN v ELSE JList(<<>>)

\* (mutant) the fragments are rebuilt only once both results have arrived
mergeIPMIData_Lockstep(o) ==
  IF o.ipmiSensors = JList(<<>>) \/ o.ipmiChassis = EmptyObject
  THEN o
  ELSE [o EXCEPT !.latestMetrics =
          [@ EXCEPT !.power = mapIPMIPower(o.ipmiSensors.items, o.ipmiChassis),
                    !.security = mapIPMISecurity(o.ipmiChassis)],
                 !.latestEnvironment =
                   mapIPMIEnvironment(o.ipmiSensors.items, o.ipmiChassis)]

\* mergeIPMIData()
mergeIPMIData(o) ==
  IF SensorsThrow(OrEmptyList(o.ipmiSensors))
  THEN [o EXCEPT !.thrown = TRUE]
  ELSE Bind(OrEmptyList(o.ipmiSensors).items, LAMBDA sensors :
         Bind([o EXCEPT !.latestMetrics =
                 [@ EXCEPT !.power = mapIPMIPower(sensors, o.ipmiChassis),
                           !.security = mapIPMISecurity(o.ipmiChassis)]], LAMBDA o1 :
           Bind(o1.latestMetrics.cpu, LAMBDA cpu :
             Bind(IF cpu # JUndef /\ cpu.temperature_celsius.package = JNum(0)
                  THEN [o1 EXCEPT !.latestMetrics.cpu = WithIpmiTemp(cpu, sensors)]
                  ELSE o1, LAMBDA o2 :
               [o2 EXCEPT !.latestEnvironment =
                  mapIPMIEnvironment(sensors, o.ipmiChassis)]))))

\* (mutant) the subscription is sent with the authenticate request, unconfirmed
onOpen_Eager(o) ==
  Bind(send([o EXCEPT !.isConnected = TRUE], HandshakeReq), LAMBDA o1 :
    Bind(send(o1, authRequest(token)), LAMBDA o2 :
      send(o2, [msg |-> "sub", id |-> StrId("", generateId),
                name |-> "reporting.realtime"])))

\* (mutant) the authenticate request goes out before the handshake
onOpen_AuthFirst(o) ==
  Bind(send([o EXCEPT !.isConnected = TRUE], authRequest(token)), LAMBDA o1 :
    send(o1, HandshakeReq))

\* onOpen()
onOpen(o) ==
  Bind(send([o EXCEPT !.isConnected = TRUE], HandshakeReq), LAMBDA o1 :
    send(o1, authRequest(token)))

\* (mutant) the sensor query is issued only when the chassis query could not be
pollIPMI_OneQuery(o) ==
  IF ~o.isAuthenticated THEN o ELSE send(o, ChassisReq)

\* pollIPMI()
pollIPMI(o) ==
  IF ~o.isAuthenticated
  THEN o
  ELSE Bind(send(o, ChassisReq), LAMBDA o1 : send(o1, SensorsReq))

\* if (this.ipmiInterval) clearInterval(this.ipmiInterval): the handle is kept
clearIpmiInterval(o) ==
  IF o.ipmiInterval = "live"
  THEN [o EXCEPT !.ipmiInterval = "cleared", !.pollTimers = @ - 1]
  ELSE o

\* (mutant) the interval is left running
stopIPMIPolling_Noop(o) == o

\* stopIPMIPolling()
stopIPMIPolling(o) == clearIpmiInterval(o)

\* (mutant) a new interval is armed without clearing the one held
startIPMIPolling_NoClear(o) ==
  Bind([o EXCEPT !.ipmiInterval = "live", !.pollTimers = @ + 1], LAMBDA o1 :
    pollIPMI(o1))

\* startIPMIPolling()
startIPMIPolling(o) ==
  Bind(clearIpmiInterval(o), LAMBDA o1 :
    Bind([o1 EXCEPT !.ipmiInterval = "live", !.pollTimers = @ + 1], LAMBDA o2 :
      pollIPMI(o2)))

\* subscribeToMetrics()
subscribeToMetrics(o) == send(o, SubReq)

\* (mutant) the delay grows with the number of attempts
onClose_Backoff(o) ==
  Bind([o EXCEPT !.isConnected = FALSE, !.isAuthenticated = FALSE], LAMBDA o1 :
    Bind(stopIPMIPolling(o1), LAMBDA o2 :
      [o2 EXCEPT !.reconnectTimers = Append(@, ReconnectDelayMs * o.attempts)]))

\* (mutant) the closure also forgets what the appliance had sent
onClose_Forget(o) ==
  Bind([o EXCEPT !.isConnected = FALSE, !.isAuthenticated = FALSE], LAMBDA o1 :
    Bind(stopIPMIPolling(o1), LAMBDA o2 :
      [o2 EXCEPT !.reconnectTimers = Append(@, ReconnectDelayMs),
                 !.latestMetrics = [cpu |-> JUndef, memory |-> JUndef,
                                    network |-> JUndef, power |-> JUndef,
                                    security |-> JUndef],
                 !.latestEnvironment = EmptyObject]))

\* onClose()
onClose(o) ==
  Bind([o EXCEPT !.isConnected = FALSE, !.isAuthenticated = FALSE], LAMBDA o1 :
    Bind(stopIPMIPolling(o1), LAMBDA o2 :
      [o2 EXCEPT !.reconnectTimers = Append(@, ReconnectDelayMs)]))

\* The authenticate request in the credential form onOpen did not choose.
otherAuthRequest(tk) ==
  IF authRequest(tk).method = "auth.login"
  THEN [msg |-> "method", id |-> StrId("auth_request", ""),
        method |-> "auth.login_with_api_key", params |-> <<tk.text>>]
  ELSE [msg |-> "method", id |-> StrId("auth_request", ""), method |-> "auth.login",
        params |-> <<tk.decoded, <<>> >>]

\* onMessage: the body of `if (msg.result === true)` under the auth_request id
onAuthSuccess(o) ==
  Bind([o EXCEPT !.isAuthenticated = TRUE], LAMBDA o1 :
    Bind(send(o1, SysInfoReq), LAMBDA o2 :
      Bind(subscribeToMetrics(o2), LAMBDA o3 : startIPMIPolling(o3))))

\* onMessage: the sys_info, ipmi_chassis_ and ipmi_sensors_ result handlers
onDataResult(o, m) ==
  Bind(IF IdIs(m.id, "sys_info_request") /\ Truthy(m.result)
       THEN [o EXCEPT !.hostname = Get(m.result, "hostname")]
       ELSE o, LAMBDA a2 :
    Bind(IF IdTruthy(m.id) /\ m.id.t # "str"
         THEN [a2 EXCEPT !.thrown = TRUE]      \* msg.id.startsWith is not a function
         ELSE IF IdTruthy(m.id) /\ IdStartsWith(m.id, "ipmi_chassis_")
                   /\ Truthy(m.result)
         THEN Bind([a2 EXCEPT !.ipmiChassis = m.result], LAMBDA c : mergeIPMIData(c))
         ELSE a2, LAMBDA a3 :
      IF ~a3.thrown /\ IdTruthy(m.id) /\ IdStartsWith(m.id, "ipmi_sensors_")
           /\ Truthy(m.result)
      THEN Bind([a3 EXCEPT !.ipmiSensors = m.result], LAMBDA c : mergeIPMIData(c))
      ELSE a3))

\* (mutant) a failed authentication is tried again in the other credential form
onResult_RetryOther(o, m) ==
  Bind(IF IdIs(m.id, "auth_request")
       THEN IF IsTrue(m.result) THEN onAuthSuccess(o)
            ELSE send(o, otherAuthRequest(token))
       ELSE o, LAMBDA a1 :
    onDataResult(a1, m))

\* onMessage: the `msg.msg === "result"` block
onResult(o, m) ==
  Bind(IF IdIs(m.id, "auth_request") /\ IsTrue(m.result)
       THEN onAuthSuccess(o)
       ELSE o, LAMBDA a1 :
    onDataResult(a1, m))

\* onMessage: the `added` / `changed` block
onPush(o, m) ==
  IF ~o.thrown /\ m.msg \in {"added", "changed"} /\ m.collection = "reporting.realtime"
  THEN processRealtimeData(o, m.fields)
  ELSE o

\* onMessage: the statements inside `try`, after `msg` was parsed
onParsed(o, m) ==
  Bind(IF m.msg = "result" THEN onResult(o, m) ELSE o, LAMBDA r1 :
    Bind(IF ~r1.thrown /\ m.msg = "ping" THEN send(r1, Pong(m.id)) ELSE r1, LAMBDA r2 :
      onPush(r2, m)))

\* (mutant) probes are answered only once authenticated
onMessage_PongWhenAuthed(o, m) ==
  IF ~m.ok \/ ~m.obj
  THEN o
  ELSE Bind(IF m.msg = "result" THEN onResult(o, m) ELSE o, LAMBDA r1 :
         Bind(IF ~r1.thrown /\ m.msg = "ping" /\ r1.isAuthenticated
              THEN send(r1, Pong(m.id)) ELSE r1, LAMBDA r2 :
           Bind(onPush(r2, m), LAMBDA r3 : [r3 EXCEPT !.thrown = FALSE])))

\* (mutant) JSON.parse runs before the try block
onMessage_ParseOutsideTry(o, m) ==
  IF ~m.ok
  THEN [o EXCEPT !.thrown = TRUE]
  ELSE IF ~m.obj THEN o
  ELSE Bind(onParsed(o, m), LAMBDA r : [r EXCEPT !.thrown = FALSE])

\* onMessage(data): try { parse; dispatch } catch (e) { log }. JSON.parse
\* throws on text that is no JSON, msg.msg throws when the text parses to null.
onMessage(o, m) ==
  Bind(IF ~m.ok \/ ~m.obj THEN [o EXCEPT !.thrown = TRUE] ELSE onParsed(o, m),
       LAMBDA tried : [tried EXCEPT !.thrown = FALSE])

\* ------------------------------------------------------------------ actions
\* Bounds of the service model.
MaxTicks == 2
MaxReaders == 1
Readers == 1..MaxReaders
\* setInterval(..., 1000) of startCollectionLoop
CollectIntervalMs == 1000
\* updateTrendHistory: MAX_HISTORY
MAX_HISTORY == 3600
\* The wall clock when the service starts.
StartMs == MAX_HISTORY * CollectIntervalMs

\* ------------------------------------------------------ SystemInfoService
\* Arithmetic on the non-negative numbers of the readings, exact.
IsNumber(v) == v.t \in {"num", "frac"}
Num(v) == IF v.t = "num" THEN v.n ELSE v.num
Den(v) == IF v.t = "num" THEN 1 ELSE v.den
\* a + b
Plus(a, b) ==
  IF IsNumber(a) /\ IsNumber(b)
  THEN Div(JNum(Num(a) * Den(b) + Num(b) * Den(a)), JNum(Den(a) * Den(b)))
  ELSE JNaN
\* a / b
Quot(a, b) ==
  IF IsNumber(a) /\ IsNumber(b)
  THEN Div(JNum(Num(a) * Den(b)), JNum(Den(a) * Num(b)))
  ELSE JNaN
\* Math.round(v)
MathRound(v) ==
  IF IsNumber(v) THEN JNum((2 * Num(v) + Den(v)) \div (2 * Den(v))) ELSE JNaN
\* v > 0, for a number of either form
Above0(v) == IsNumber(v) /\ Num(v) > 0

\* What the ten systeminformation calls of one cycle resolve to: the fields
\* collectMetrics reads, with the SERVER_HOSTNAME variable of the
\* environment as the cycle finds it.
LocalReadings ==
  { [cores |-> 1, load |-> Div(JNum(1), JNum(10)),
     cpus |-> <<Div(JNum(1), JNum(10))>>, tempMain |-> JNull,
     memTotal |-> JNum(GiB), memActive |-> JNum(GiB \div 2),
     memAvailable |-> JNum(GiB \div 4),
     memSwapUsed |-> JNum(GiB \div 4), memSwapTotal |-> JNum(GiB),
     disks |-> <<[device |-> <<"/", "d", "e", "v", "/", "s", "d", "a">>,
                  size |-> JNum(GiB)]>>,
     fs |-> <<[fs |-> <<"/", "d", "e", "v", "/", "s", "d", "a", "1">>,
               type |-> <<"e", "x", "t", "4">>, mount |-> "/",
               size |-> JNum(GiB), used |-> JNum(GiB \div 4), use |-> JNum(25)]>>,
     ifaces |-> <<[iface |-> "em0", operstate |-> "up", speed |-> JNull]>>,
     stats |-> <<[iface |-> "em0", rx_sec |-> JNum(2097152), tx_sec |-> JNum(0)]>>,
     hostname |-> "host", env |-> JUndef,
     rndPower |-> JNum(0), rndTemp |-> JNum(0)],
    [cores |-> 2, load |-> JNum(50), cpus |-> <<JNum(40), JNum(60)>>,
     tempMain |-> JNum(47),
     memTotal |-> JNum(GiB), memActive |-> JNum(GiB \div 4),
     memAvailable |-> JNum(GiB \div 2),
     memSwapUsed |-> JNum(0), memSwapTotal |-> JNum(0),
     disks |-> <<>>,
     fs |-> <<[fs |-> <<"t", "a", "n", "k">>, type |-> <<"Z", "F", "S">>,
               mount |-> "/mnt/tank", size |-> JNum(GiB), used |-> JNum(GiB \div 2),
               use |-> JNum(50)],
              [fs |-> <<"b", "o", "o", "t", "-", "p", "o", "o", "l">>,
               type |-> <<"z", "f", "s">>, mount |-> "/",
               size |-> JNum(GiB), used |-> JNum(0), use |-> JNum(0)]>>,
     ifaces |-> <<[iface |-> "lo0", operstate |-> "down", speed |-> JNum(100)]>>,
     stats |-> <<>>,
     hostname |-> "host", env |-> JStr("rack7"),
     rndPower |-> JNum(0), rndTemp |-> JNum(0)] }

\* The two calls of Math.random() of one cycle (getMockPowerMetrics,
\* getMockTemperatureMetrics)
Draws ==
  { [power |-> JNum(0), temp |-> Div(JNum(1), JNum(2))],
    [power |-> Div(JNum(1), JNum(2)), temp |-> JNum(0)] }

\* One cycle's readings and draws
Probes ==
  { [r EXCEPT !.rndPower = d.power, !.rndTemp = d.temp] :
      r \in LocalReadings, d \in Draws }

\* mapCpuMetrics(cpu, load, temp)
mapCpuMetrics(p) ==
  [utilization_percent |-> p.load,
   per_core_utilization |-> p.cpus,
   load_average |-> <<0, 0, 0>>,
   core_count |-> p.cores, physical_core_count |-> p.cores,
   frequency_mhz |-> [base |-> 0, current |-> 0, turbo_active |-> FALSE],
   temperature_celsius |->
     [package |-> IF Truthy(p.tempMain) THEN p.tempMain
                  ELSE Plus(JNum(40), Times(Quot(p.load, JNum(100)), 30)),
      cores |-> <<>>],
   thermal_throttling_events |-> 0, power_consumption_watts |-> 0,
   times_percent |-> ZeroTimes]

\* mapMemoryMetrics(mem)
mapMemoryMetrics(p) ==
  [total_gb |-> Div(p.memTotal, JNum(GiB)),
   used_gb |-> Div(p.memActive, JNum(GiB)),
   available_gb |-> Div(p.memAvailable, JNum(GiB)),
   swap_used_gb |-> Div(p.memSwapUsed, JNum(GiB)),
   swap_total_gb |-> Div(p.memSwapTotal, JNum(GiB)),
   usage_percent |-> Times(Div(p.memActive, p.memTotal), 100),
   page_faults_rate |-> 0,
   memory_errors |-> [corrected |-> 0, uncorrected |-> 0]]

\* The file system mapStorageMetrics pairs with the disk at index i.
FsOfDisk(fs, disk, i) ==
  Bind(SelectSeq(fs, LAMBDA f : startsWith(f.fs, disk.device)
                                  \/ includes(f.fs, disk.device)), LAMBDA named :
    Bind(SelectSeq(fs, LAMBDA f : f.mount = "/"), LAMBDA root :
      IF named # <<>> THEN <<named[1]>>
      ELSE IF i = 1 /\ root # <<>> THEN <<root[1]>>
      ELSE IF i = 1 /\ fs # <<>> THEN <<fs[1]>>
      ELSE <<>>))

\* a device of mapStorageMetrics, from the disk layout
DiskDevice(fs, disk, i) ==
  Bind(FsOfDisk(fs, disk, i), LAMBDA fsInfo :
    Bind(Div(disk.size, JNum(GiB)), LAMBDA size_gb :
      Bind(IF fsInfo # <<>> THEN Div(fsInfo[1].used, JNum(GiB)) ELSE JNum(0),
           LAMBDA used_gb :
        [device |-> disk.device, size_gb |-> size_gb, used_gb |-> used_gb,
         usage_percent |-> IF Above0(size_gb)
                           THEN Times(Quot(used_gb, size_gb), 100)
                           ELSE JNum(0)])))

\* a ZFS pool that stands for a device when there is no disk layout
IsPool(f) ==
  /\ toLowerCase(f.type) = <<"z", "f", "s">> \/ ~startsWith(f.fs, <<"/">>)
  /\ ~startsWith(f.fs, <<"b", "o", "o", "t", "-", "p", "o", "o", "l">>)
  /\ ~includes(f.fs, <<"/">>)
  /\ Above0(f.size)
PoolDevice(f) ==
  [device |-> f.fs, size_gb |-> Div(f.size, JNum(GiB)),
   used_gb |-> Div(f.used, JNum(GiB)), usage_percent |-> f.use]

\* mapStorageMetrics(fsSize, diskLayout): the devices, with the fields that
\* are computed from the readings (the others are constants)
mapStorageMetrics(p) ==
  [devices |->
     IF p.disks # <<>>
     THEN [i \in 1..Len(p.disks) |-> DiskDevice(p.fs, p.disks[i], i)]
     ELSE MapSeq(SelectSeq(p.fs, IsPool), PoolDevice)]

\* an interface of mapNetworkMetrics
LocalInterface(stats, iface) ==
  Bind(SelectSeq(stats, LAMBDA st : st.iface = iface.iface), LAMBDA stat :
    [name |-> iface.iface,
     status |-> IF iface.operstate = "up" THEN "up" ELSE "down",
     speed_mbps |-> IF Truthy(iface.speed) THEN iface.speed ELSE JNum(1000),
     duplex |-> "unknown", mtu |-> 0,
     rx_bytes_per_sec |-> IF stat # <<>> THEN stat[1].rx_sec ELSE JNum(0),
     tx_bytes_per_sec |-> IF stat # <<>> THEN stat[1].tx_sec ELSE JNum(0),
     rx_packets_per_sec |-> 0, tx_packets_per_sec |-> 0,
     rx_errors |-> 0, tx_errors |-> 0, rx_dropped |-> 0, tx_dropped |-> 0,
     addresses |-> <<[family |-> "IPv4"]>>])

\* mapNetworkMetrics(networkStats, networkInterfaces)
mapNetworkMetrics(p) ==
  [interfaces |-> [i \in 1..Len(p.ifaces) |-> LocalInterface(p.stats, p.ifaces[i])],
   active_connections |-> [tcp_established |-> 0, tcp_listen |-> 0, udp_active |-> 0]]

\* getMockPowerMetrics(cpuLoad): basePower + loadPower + (Math.random() * 10 - 5)
getMockPowerMetrics(p) ==
  [is_simulated |-> TRUE,
   psu_status |-> <<"healthy", "healthy">>, psu_count |-> 2,
   power_consumption_watts |->
     MathRound(Plus(Plus(JNum(95), Times(Quot(p.load, JNum(100)), 150)),
                    Times(p.rndPower, 10))),
   power_consumption_peak_watts |-> 400, power_efficiency_percent |-> 92,
   voltage_stability |-> "stable"]

\* getMockTemperatureMetrics(cpuTemp, load): 40 + (load / 100) * 30 +
\* (Math.random() * 4 - 2) when there is no reading
getMockTemperatureMetrics(p) ==
  [coretemp |-> <<
     [label |-> "CPU Package",
      current_celsius |->
        IF Truthy(p.tempMain) THEN p.tempMain
        ELSE Plus(Plus(JNum(38), Times(Quot(p.load, JNum(100)), 30)),
                  Times(p.rndTemp, 4)),
      high_celsius |-> 85, critical_celsius |-> 100,
      is_simulated |-> ~Truthy(p.tempMain)] >>]

\* getMockSecurityMetrics(): the dates are those of the call
getMockSecurityMetrics(t) ==
  [is_simulated |-> TRUE,
   authentication |-> [active_user_sessions |-> 1, last_password_change |-> t],
   firewall |-> [status |-> "active"]]

\* getMockEnvironmentMetrics()
getMockEnvironmentMetrics ==
  [is_simulated |-> TRUE,
   temperature |-> [ambient_celsius |-> JNum(22), intake_celsius |-> JNum(24),
                    exhaust_celsius |-> JNum(35)],
   cooling |-> [fans |-> <<>>],
   chassis |-> [intrusion_detected |-> FALSE, door_status |-> "closed"]]

\* collectMetrics: the hardware record built from the local readings (158-179)
localHardware(p, t) ==
  [cpu |-> mapCpuMetrics(p),
   memory |-> mapMemoryMetrics(p),
   storage |-> mapStorageMetrics(p),
   network |-> mapNetworkMetrics(p),
   power |-> getMockPowerMetrics(p),
   temperature |-> getMockTemperatureMetrics(p),
   security |-> getMockSecurityMetrics(t)]

\* {...a, ...b}
Spread(a, b) ==
  [k \in DOMAIN a \cup DOMAIN b |-> IF k \in DOMAIN b THEN b[k] ELSE a[k]]

\* The CPU merge marking the temperature card real with any appliance CPU data
mergeCpu_FlagWithLoad(hw, real) ==
  IF real.cpu = JUndef THEN hw
  ELSE Bind([hw EXCEPT !.cpu.utilization_percent = real.cpu.utilization_percent,
                       !.cpu.per_core_utilization = real.cpu.per_core_utilization,
                       !.cpu.core_count = real.cpu.core_count,
                       !.cpu.temperature_celsius = real.cpu.temperature_celsius,
                       !.temperature.coretemp[1].is_simulated = FALSE],
            LAMBDA h1 :
         IF Above0(real.cpu.temperature_celsius.package)
         THEN [h1 EXCEPT !.temperature.coretemp[1].current_celsius =
                           real.cpu.temperature_celsius.package]
         ELSE h1)

\* collectMetrics, 1. CPU MERGE (186-211)
mergeCpu(hw, real) ==
  IF real.cpu = JUndef THEN hw
  ELSE Bind([hw EXCEPT !.cpu.utilization_percent = real.cpu.utilization_percent,
                       !.cpu.per_core_utilization = real.cpu.per_core_utilization,
                       !.cpu.core_count = real.cpu.core_count,
                       !.cpu.temperature_celsius = real.cpu.temperature_celsius],
            LAMBDA h1 :
         IF Above0(real.cpu.temperature_celsius.package)
         THEN [h1 EXCEPT !.temperature.coretemp[1].current_celsius =
                           real.cpu.temperature_celsius.package,
                         !.temperature.coretemp[1].is_simulated = FALSE]
         ELSE h1)

\* The memory merge taking the appliance's capacity and usage only
mergeMemory_UsageOnly(hw, real) ==
  IF real.memory # JUndef /\ real.memory # EmptyObject /\ Above0(real.memory.total_gb)
  THEN [hw EXCEPT !.memory.total_gb = real.memory.total_gb,
                  !.memory.used_gb = real.memory.used_gb,
                  !.memory.available_gb = real.memory.available_gb,
                  !.memory.usage_percent = real.memory.usage_percent]
  ELSE hw

\* collectMetrics, 2. MEMORY MERGE (213-217)
mergeMemory(hw, real) ==
  IF real.memory # JUndef /\ real.memory # EmptyObject /\ Above0(real.memory.total_gb)
  THEN [hw EXCEPT !.memory = Spread(hw.memory, real.memory)]
  ELSE hw

\* The matched interface with the appliance's speed always taken
MergedInterface_ApplianceSpeed(realIfaces, l) ==
  Bind(SelectSeq(realIfaces, LAMBDA r : r.name = l.name), LAMBDA found :
    IF found = <<>> THEN l
    ELSE [l EXCEPT !.rx_bytes_per_sec = found[1].rx_bytes_per_sec,
                   !.tx_bytes_per_sec = found[1].tx_bytes_per_sec,
                   !.speed_mbps = found[1].speed_mbps,
                   !.status = found[1].status])

\* the interface of the appliance with the name of a local one, if any
RealInterface(realIfaces, name) == SelectSeq(realIfaces, LAMBDA r : r.name = name)
MergedInterface(realIfaces, l) ==
  Bind(RealInterface(realIfaces, l.name), LAMBDA found :
    IF found = <<>> THEN l
    ELSE [l EXCEPT !.rx_bytes_per_sec = found[1].rx_bytes_per_sec,
                   !.tx_bytes_per_sec = found[1].tx_bytes_per_sec,
                   !.speed_mbps = IF Truthy(found[1].speed_mbps)
                                  THEN found[1].speed_mbps ELSE l.speed_mbps,
                   !.status = found[1].status])

\* collectMetrics, 3. NETWORK MERGE (216-257)
mergeNetwork(hw, real) ==
  IF real.network # JUndef /\ real.network.interfaces # <<>>
  THEN Bind(hw.network.interfaces, LAMBDA locals :
         [hw EXCEPT !.network.interfaces =
            [i \in 1..Len(locals) |-> MergedInterface(real.network.interfaces, locals[i])]
            \o SelectSeq(real.network.interfaces,
                         LAMBDA r : \A i \in 1..Len(locals) : locals[i].name # r.name)])
  ELSE hw

\* collectMetrics, 4. POWER MERGE (259-262)
mergePower(hw, real) ==
  IF real.power # JUndef /\ ~real.power.is_simulated
  THEN [hw EXCEPT !.power = real.power]
  ELSE hw

\* collectMetrics, 5. SECURITY MERGE (264-270)
mergeSecurity(hw, real) ==
  IF real.security # JUndef
  THEN [hw EXCEPT !.security = Spread(hw.security, real.security)]
  ELSE hw

\* collectMetrics: hardware after the selective merge of getMetrics() (181-271)
mergedHardware(hw, real) ==
  Bind(mergeCpu(hw, real), LAMBDA h1 :
    Bind(mergeMemory(h1, real), LAMBDA h2 :
      Bind(mergeNetwork(h2, real), LAMBDA h3 :
        Bind(mergePower(h3, real), LAMBDA h4 :
          mergeSecurity(h4, real)))))

\* collectMetrics: realHostname (274-287)
realHostname(p, o) ==
  IF Truthy(p.env) THEN p.env
  ELSE IF Truthy(o.hostname) THEN o.hostname
  ELSE JStr(p.hostname)

\* collectMetrics: the environment of the snapshot (332-337)
environmentOf(o) ==
  IF o.latestEnvironment = EmptyObject THEN EmptyObject
  ELSE IF ~o.latestEnvironment.is_simulated THEN o.latestEnvironment
  ELSE getMockEnvironmentMetrics

\* new Date(ms).toISOString(): the time of day written out in its fields
toISOString(ms) ==
  [h |-> ms \div 3600000, m |-> (ms \div 60000) % 60,
   s |-> (ms \div 1000) % 60, ms |-> ms % 1000]
\* new Date(text).getTime()
getTime(iso) == ((iso.h * 60 + iso.m) * 60 + iso.s) * 1000 + iso.ms

\* (mutant) the environment is the one the connector held when the service
\* was constructed
Snapshot_EnvAtStart(p, o, t) ==
  Bind(mergedHardware(localHardware(p, toISOString(t)), o.latestMetrics), LAMBDA hardware :
    [meta |-> [hostname |-> realHostname(p, o), server_type |-> "generic",
               collection_timestamp |-> toISOString(t)],
     data |-> [hardware |-> hardware,
               security |-> hardware.security,
               environment |-> EmptyObject,
               alerts |-> <<>>]])

\* collectMetrics: { meta, data: metricsData } built from the readings p, the
\* connector o and the clock t (158-339)
Snapshot(p, o, t) ==
  Bind(mergedHardware(localHardware(p, toISOString(t)), o.latestMetrics), LAMBDA hardware :
    [meta |-> [hostname |-> realHostname(p, o), server_type |-> "generic",
               collection_timestamp |-> toISOString(t)],
     data |-> [hardware |-> hardware,
               security |-> hardware.security,
               environment |-> environmentOf(o),
               alerts |-> <<>>]])

\* (mutant) a full series drops the sample that arrives
pushData_KeepOldest(series, timestamp, value) ==
  IF Len(series) >= MAX_HISTORY THEN series
  ELSE Append(series, [timestamp |-> timestamp, value |-> value])

\* updateTrendHistory: pushData(key, value) on one series
pushData(series, timestamp, value) ==
  Bind(Append(series, [timestamp |-> timestamp, value |-> value]), LAMBDA pushed :
    IF Len(pushed) > MAX_HISTORY THEN Tail(pushed) ELSE pushed)

\* x[0]?.f || 0
FirstOrZero(q, f) == IF q # <<>> THEN OrZero(q[1][f]) ELSE JNum(0)

\* (mutant) the disk series is never trimmed
updateTrendHistory_DiskUntrimmed(history, metrics, t) ==
  Bind(metrics.data.hardware, LAMBDA hw :
    [cpu |-> pushData(history.cpu, toISOString(t), hw.cpu.utilization_percent),
     memory |-> pushData(history.memory, toISOString(t), hw.memory.usage_percent),
     disk |-> Append(history.disk,
                     [timestamp |-> toISOString(t),
                      value |-> FirstOrZero(hw.storage.devices, "usage_percent")]),
     network |-> pushData(history.network, toISOString(t),
                          Quot(Quot(FirstOrZero(hw.network.interfaces, "rx_bytes_per_sec"),
                                    JNum(1024)), JNum(1024)))])

\* updateTrendHistory(metrics) at clock t
updateTrendHistory(history, metrics, t) ==
  Bind(metrics.data.hardware, LAMBDA hw :
    [cpu |-> pushData(history.cpu, toISOString(t), hw.cpu.utilization_percent),
     memory |-> pushData(history.memory, toISOString(t), hw.memory.usage_percent),
     disk |-> pushData(history.disk, toISOString(t),
                       FirstOrZero(hw.storage.devices, "usage_percent")),
     network |-> pushData(history.network, toISOString(t),
                          Quot(Quot(FirstOrZero(hw.network.interfaces, "rx_bytes_per_sec"),
                                    JNum(1024)), JNum(1024)))])

\* ------------------------------------------- double-precision arithmetic
\* values.reduce((a, b) => a + b, 0) / values.length is computed in IEEE 754
\* double precision, rounding to nearest, ties to even.  A non-negative
\* finite double is [e, hi, lo]: its 53-bit significand is hi * 2^27 + lo,
\* between 2^52 and 2^53, and its value is the significand times 2^e; zero
\* is [e |-> 0, hi |-> 0, lo |-> 0].
Limb == 2^27
FZero == [e |-> 0, hi |-> 0, lo |-> 0]
\* the number of bits of n
BitLen(n) ==
  CHOOSE k \in 0..31 : IF k = 0 THEN n = 0
                       ELSE 2^(k - 1) <= n /\ (k = 31 \/ n < 2^k)
\* w \div 2^d for a significand w, 0 <= d <= 54
WShr(w, d) ==
  IF d >= 27 THEN [hi |-> 0, lo |-> w.hi \div 2^(d - 27)]
  ELSE [hi |-> w.hi \div 2^d, lo |-> (w.hi % 2^d) * 2^(27 - d) + w.lo \div 2^d]
\* w % 2^d
WLow(w, d) ==
  IF d >= 27 THEN [hi |-> w.hi % 2^(d - 27), lo |-> w.lo]
  ELSE [hi |-> 0, lo |-> w.lo % 2^d]
\* a + b
WAdd(a, b) ==
  [hi |-> a.hi + b.hi + (a.lo + b.lo) \div Limb, lo |-> (a.lo + b.lo) % Limb]
\* 2^(d - 1): half of the last place kept when d bits are dropped
WHalf(d) ==
  IF d = 0 THEN [hi |-> 0, lo |-> 0]
  ELSE IF d > 27 THEN [hi |-> 2^(d - 28), lo |-> 0]
  ELSE [hi |-> 0, lo |-> 2^(d - 1)]
WLess(a, b) == a.hi < b.hi \/ (a.hi = b.hi /\ a.lo < b.lo)
\* the double with significand w (+ 1 if up) and exponent e
Rounded(w, e, up) ==
  Bind(WAdd(w, [hi |-> 0, lo |-> IF up THEN 1 ELSE 0]), LAMBDA r :
    IF r.hi = 2^26 THEN [e |-> e + 1, hi |-> 2^25, lo |-> 0]
    ELSE [e |-> e, hi |-> r.hi, lo |-> r.lo])
\* x + y for x.e >= y.e, neither zero
FAddAligned(x, y) ==
  Bind(x.e - y.e, LAMBDA d :
    IF d >= 54 THEN x
    ELSE Bind(WAdd(x, WShr(y, d)), LAMBDA s :
           Bind(WLow(y, d), LAMBDA rest :
             IF s.hi < 2^26
             THEN Rounded(s, x.e, \/ WLess(WHalf(d), rest)
                                  \/ d > 0 /\ rest = WHalf(d) /\ s.lo % 2 = 1)
             ELSE Rounded(WShr(s, 1), x.e + 1,
                          /\ s.lo % 2 = 1
                          /\ \/ rest # WHalf(0)
                             \/ (s.lo \div 2) % 2 = 1))))
\* x + y
FAdd(x, y) ==
  IF x.hi = 0 THEN y
  ELSE IF y.hi = 0 THEN x
  ELSE IF x.e >= y.e THEN FAddAligned(x, y) ELSE FAddAligned(y, x)
\* x / n for an integer 1 <= n <= 4096: long division of the significand,
\* taken thirteen bits further, in limbs of 26, 13, 14 and 13 bits
FDiv(x, n) ==
  IF x.hi = 0 THEN x
  ELSE
    Bind((x.hi % n) * 2^13 + x.lo \div 2^14, LAMBDA t2 :
      Bind((t2 % n) * 2^14 + (x.lo % 2^14), LAMBDA t3 :
        Bind((t3 % n) * 2^13, LAMBDA t4 :
          Bind((t2 \div n) * 2^14 + t3 \div n, LAMBDA b :
            Bind(BitLen(x.hi \div n) - 13, LAMBDA s :
              Rounded([hi |-> (x.hi \div n) * 2^(13 - s) + b \div 2^(14 + s),
                       lo |-> (b % 2^(14 + s)) * 2^(13 - s) + (t4 \div n) \div 2^s],
                      x.e - 13 + s,
                      \/ (t4 \div n) % 2^s > 2^(s - 1)
                      \/ /\ (t4 \div n) % 2^s = 2^(s - 1)
                         /\ \/ t4 % n # 0
                            \/ ((t4 \div n) \div 2^s) % 2 = 1
                            \/ s = 13 /\ b % 2 = 1))))))
\* the double of the integer n
FromInt(n) ==
  Bind(BitLen(n), LAMBDA k :
    IF k = 0 THEN FZero
    ELSE IF k <= 26 THEN [e |-> k - 53, hi |-> n * 2^(26 - k), lo |-> 0]
    ELSE [e |-> k - 53, hi |-> n \div 2^(k - 26),
          lo |-> (n % 2^(k - 26)) * 2^(53 - k)])
\* the double a number of the model stands for: an integer, or the quotient
\* of two integers rounded once
ToDouble(v) ==
  IF v.t = "num" THEN FromInt(v.n) ELSE FDiv(FromInt(v.num), v.den)
\* x <= y
FLeq(x, y) ==
  IF x.hi = 0 THEN TRUE
  ELSE IF y.hi = 0 THEN FALSE
  ELSE IF x.e # y.e THEN x.e < y.e
  ELSE ~WLess(y, x)
\* values[from] + ... + values[to] added to acc from left to right
RECURSIVE FSum(_, _, _, _)
FSum(values, from, to, acc) ==
  IF from > to THEN acc
  ELSE IF from = to THEN FAdd(acc, ToDouble(values[from]))
  ELSE Bind(FSum(values, from, (from + to) \div 2, acc), LAMBDA left :
         FSum(values, (from + to) \div 2 + 1, to, left))

\* a <= b for two numbers of the readings
NumLeq(a, b) == Num(a) * Den(b) <= Num(b) * Den(a)
\* Math.min(...values) and Math.max(...values) of a non-empty list of numbers
MinValue(values) ==
  Bind({values[i] : i \in 1..Len(values)}, LAMBDA S :
    CHOOSE v \in S : \A w \in S : NumLeq(v, w))
MaxValue(values) ==
  Bind({values[i] : i \in 1..Len(values)}, LAMBDA S :
    CHOOSE v \in S : \A w \in S : NumLeq(w, v))

\* getTrends: formatTrend(metric, unit, key) on the series of the key.  The
\* samples, current, min and max are numbers of the readings; average is
\* the double the reduction comes to.
formatTrend(history, metric, unit) ==
  Bind([i \in 1..Len(history) |-> history[i].value], LAMBDA values :
    [metric |-> metric, unit |-> unit,
     data |-> history,
     current |-> IF Len(history) > 0 THEN history[Len(history)].value ELSE JNum(0),
     average |-> IF Len(values) > 0
                 THEN FDiv(FSum(values, 1, Len(values), FZero), Len(values))
                 ELSE FZero,
     min |-> IF Len(values) > 0 THEN MinValue(values) ELSE JNum(0),
     max |-> IF Len(values) > 0 THEN MaxValue(values) ELSE JNum(0)])

\* getTrends()
getTrends(history) ==
  [cpu |-> formatTrend(history.cpu, "CPU Utilization", "%"),
   memory |-> formatTrend(history.memory, "Memory Usage", "%"),
   disk |-> formatTrend(history.disk, "Disk Usage", "%"),
   network |-> formatTrend(history.network, "Network Traffic", "MB/s")]

\* ---------------------------------------------------------- the dashboard
\* useState<number>(10)
DefaultRange == 10
\* The buttons of the range selector that are pressed: 1m, 10m and 1h.
TimeRanges == {1, DefaultRange, 60}

\* (mutant) the point that lies on the cutoff is drawn too
prepareTimeSeriesData_Inclusive(tr, trendKey, range, t) ==
  IF tr = JNull THEN <<>>
  ELSE Bind(t - range * 60 * 1000, LAMBDA cutoff :
         MapSeq(SelectSeq(tr[trendKey].data,
                          LAMBDA p : getTime(p.timestamp) >= cutoff),
                LAMBDA point : <<point.timestamp, point.value>>))

\* prepareTimeSeriesData(trendKey) at clock t, the trends state being tr
\* (JNull for the {} the hook starts with) and the range `range` minutes
prepareTimeSeriesData(tr, trendKey, range, t) ==
  IF tr = JNull THEN <<>>
  ELSE Bind(t - range * 60 * 1000, LAMBDA cutoff :
         MapSeq(SelectSeq(tr[trendKey].data,
                          LAMBDA p : getTime(p.timestamp) > cutoff),
                LAMBDA point : <<point.timestamp, point.value>>))

\* A render of HardwareTrends at clock t: the lower end of the time axis
\* and the series of the two line charts.
HardwareTrends(tr, range, t) ==
  [min |-> t - range * 60 * 1000,
   cpu |-> prepareTimeSeriesData(tr, "cpu", range, t),
   memory |-> prepareTimeSeriesData(tr, "memory", range, t)]

\* (mutant) a cycle that finds a snapshot cached rewrites its header and its
\* CPU region in place
collectMetrics_InPlace(svc, rd, o, t) ==
  IF ~rd.ok THEN [svc EXCEPT !.lastCycle = "failed"]
  ELSE Bind(Snapshot(rd.v, o, t), LAMBDA snap :
         [svc EXCEPT !.currentMetrics =
                       IF @ = JNull THEN snap
                       ELSE [@ EXCEPT !.meta = snap.meta,
                                      !.data.hardware.cpu = snap.data.hardware.cpu],
                     !.trendHistory = updateTrendHistory(svc.trendHistory, snap, t),
                     !.lastCycle = "ok"])

\* (mutant) a cycle that fails empties the cache and the trend series
collectMetrics_FailClears(svc, rd, o, t) ==
  IF ~rd.ok
  THEN [svc EXCEPT !.currentMetrics = JNull,
                   !.trendHistory = [cpu |-> <<>>, memory |-> <<>>,
                                     disk |-> <<>>, network |-> <<>>],
                   !.lastCycle = "failed"]
  ELSE Bind(Snapshot(rd.v, o, t), LAMBDA snap :
         [svc EXCEPT !.currentMetrics = snap,
                     !.trendHistory = updateTrendHistory(svc.trendHistory, snap, t),
                     !.lastCycle = "ok"])

\* The service's fields after collectMetrics resumed from its await: the
\* readings resolved to rd.v, or one of them was rejected (~rd.ok) and
\* the catch block only logs.
collectMetrics(svc, rd, o, t) ==
  IF ~rd.ok THEN [svc EXCEPT !.lastCycle = "failed"]
  ELSE Bind(Snapshot(rd.v, o, t), LAMBDA snap :
         [svc EXCEPT !.currentMetrics = snap,
                     !.trendHistory = updateTrendHistory(svc.trendHistory, snap, t),
                     !.lastCycle = "ok"])
Init ==
  /\ booted = FALSE
  /\ token \in Tokens
  /\ ws = 0
  /\ sock = [s \in SockIds |-> [readyState |-> "CLOSED", listeners |-> FALSE]]
  /\ isConnected = FALSE
  /\ isAuthenticated = FALSE
  /\ ipmiInterval = "null"
  /\ pollTimers = 0
  /\ reconnectTimers = <<>>
  /\ wire = [s \in SockIds |-> <<>>]
  /\ attempts = 0
  /\ crashed = FALSE
  /\ hostname = JNull
  /\ ipmiSensors = JList(<<>>)
  /\ ipmiChassis = EmptyObject
  /\ latestMetrics = [cpu |-> JUndef, memory |-> JUndef, network |-> JUndef,
                      power |-> JUndef, security |-> JUndef]
  /\ latestEnvironment = EmptyObject
  /\ isCollecting = FALSE
  /\ collecting = 0
  /\ currentMetrics = JNull
  /\ trendHistory = [cpu |-> <<>>, memory |-> <<>>, disk |-> <<>>, network |-> <<>>]
  /\ now = StartMs
  /\ lastCycle = "none"
  /\ calls = [r \in Readers |-> [pc |-> "idle", out |-> JNull, own |-> JNull]]
  /\ trends = JNull
  /\ timeRange = DefaultRange
  /\ chart = HardwareTrends(JNull, DefaultRange, StartMs)
  /\ inflight = <<>>

Received(s) == Len(SelectSeq(wire[s], LAMBDA e : e.dir = "in"))
Ticks(s) == Len(SelectSeq(wire[s], LAMBDA e : e.dir = "tick"))
AuthRequests(s) ==
  Len(SelectSeq(wire[s], LAMBDA e : e.dir = "out" /\ e.m.msg = "method"
                                     /\ IdIs(e.m.id, "auth_request")))
AuthResults(s) == Len(SelectSeq(wire[s], LAMBDA e : e.dir = "in" /\ IsAuthResult(e.m)))

\* A collectMetrics() call that has just reached its await.
Called(who) == [who |-> who, overtaken |-> FALSE]

\* The SystemInfoService constructor: new TrueNASConnector(...).connect(),
\* then startCollectionLoop(), whose first collectMetrics() runs up to its await.
Boot ==
  /\ ~booted
  /\ booted' = TRUE
  /\ LET o == connect(Self)
     IN /\ ws' = o.ws /\ sock' = o.sock /\ wire' = o.wire /\ attempts' = o.attempts
  /\ isCollecting' = TRUE
  /\ collecting' = collecting + 1
  /\ inflight' = Append(inflight, Called(0))
  /\ UNCHANGED <<token, isConnected, isAuthenticated, ipmiInterval, pollTimers,
                 reconnectTimers, crashed, hostname, ipmiSensors, ipmiChassis,
                 latestMetrics, latestEnvironment, currentMetrics, trendHistory,
                 now, lastCycle, calls, trends, timeRange, chart>>

\* The socket's "open" event.
SockOpen(s) ==
  /\ sock[s].listeners /\ sock[s].readyState = "CONNECTING"
  /\ Commit(onOpen([Self EXCEPT !.sock[s].readyState = "OPEN"]))

\* (mutant) the "error" listener schedules a reconnect as the "close" listener does
SockFail_ErrorReconnects(s) ==
  /\ sock[s].listeners /\ sock[s].readyState = "CONNECTING"
  /\ Commit(Bind(onClose([Self EXCEPT !.sock[s].readyState = "CLOSED"]), LAMBDA o1 :
              onClose(o1)))

\* The connection attempt fails: "error" (logged only), then "close".
SockFail(s) ==
  /\ sock[s].listeners /\ sock[s].readyState = "CONNECTING"
  /\ Commit(onClose([Self EXCEPT !.sock[s].readyState = "CLOSED"]))

\* The closing handshake starts (the peer's close frame arrived); the
\* "close" event comes once the transport has ended.
SockClosing(s) ==
  /\ sock[s].listeners /\ sock[s].readyState = "OPEN"
  /\ Commit([Self EXCEPT !.sock[s].readyState = "CLOSING"])

\* The socket's "close" event.
SockClose(s) ==
  /\ sock[s].listeners /\ sock[s].readyState \in {"OPEN", "CLOSING"}
  /\ Commit(onClose([Self EXCEPT !.sock[s].readyState = "CLOSED"]))

\* What the appliance may send: any frame, but one result per authenticate request.
ProtoMsgs ==
  {AuthOk, AuthFail, AuthError, Connected} \cup Malformed
    \cup {PingMsg(p) : p \in PingIds}

Deliver(s, m) ==
  /\ sock[s].listeners /\ sock[s].readyState = "OPEN"
  /\ Received(s) < MaxRecv
  /\ Commit(onMessage([Self EXCEPT !.wire[s] = Append(@, In(m))], m))

\* The socket's "message" event.
SockMessage(s) ==
  \E m \in ProtoMsgs :
    /\ IsAuthResult(m) => AuthResults(s) < AuthRequests(s)
    /\ Deliver(s, m)

\* A result for the authenticate request arrives again.
SockAuthReplay(s) ==
  \E m \in {AuthOk, AuthFail} :
    /\ AuthResults(s) >= 1
    /\ Deliver(s, m)

\* A tick of the setInterval timer armed by startIPMIPolling.
PollTick ==
  /\ pollTimers > 0
  /\ ws # 0 /\ Ticks(ws) < MaxPolls
  /\ Commit(pollIPMI([Self EXCEPT !.wire[ws] = Append(@, TickAt(sock[ws].readyState))]))

\* A setTimeout(() => this.connect(), 5000) timer fires.
ReconnectFire ==
  \E i \in 1..Len(reconnectTimers) :
    /\ FreeIds(Self) # {} \/ ws # 0
    /\ Commit(connect([Self EXCEPT !.reconnectTimers =
                         SubSeq(@, 1, i - 1) \o SubSeq(@, i + 1, Len(@))]))

Next ==
  \/ Boot
  \/ \E s \in SockIds : SockOpen(s)
  \/ \E s \in SockIds : SockFail(s)
  \/ \E s \in SockIds : SockClosing(s)
  \/ \E s \in SockIds : SockClose(s)
  \/ \E s \in SockIds : SockMessage(s)
  \/ PollTick
  \/ ReconnectFire

Spec == Init /\ [][Next]_vars

\* Timers of the event loop fire.
FairSpec == Spec /\ WF_vars(ReconnectFire)

\* The appliance may answer the authenticate request more than once.
NextReplay == Next \/ \E s \in SockIds : SockAuthReplay(s)
SpecReplay == Init /\ [][NextReplay]_vars

\* Well-formed payloads, as the appliance sends them once asked: two sensor
\* lists, two chassis records and two realtime pushes, so that "the most
\* recent one" is told apart from the one before, a push that carries
\* no per-core entries, no memory and no interfaces, and two sensor lists
\* with power supply sensors: one with the status readings met in the
\* field, one where the only status reading is not available.  The second
\* list has the three voltage rails, each followed by a dual or battery
\* variant of it; the last has power, voltage, fan and temperature sensors
\* without a reading.
D ==
  [ sensorsA |-> JList(<<
      Sensor(<<"C", "P", "U", " ", "T", "e", "m", "p">>, "Temperature", "C",
             JText(<<"4", "1">>)),
      Sensor(<<"F", "A", "N", "_", "1">>, "Fan", "RPM", JText(<<"9", "0", "0">>)),
      Sensor(<<"P", "S", "U", "1", "_", "P", "o", "w", "e", "r">>, "Power", "W",
             JText(<<"N", "/", "A">>)) >>),
    sensorsB |-> JList(<<
      Sensor(<<"I", "n", "l", "e", "t", " ", "T", "e", "m", "p">>, "Temperature",
             "C", JText(<<"2", "4">>)),
      Sensor(<<"S", "y", "s", "t", "e", "m", " ", "P", "o", "w", "e", "r">>,
             "Power", "W", JText(<<"1", "2", "0">>)),
      Sensor(<<"1", "2", "V">>, "Voltage", "V",
             JText(<<"1", "2">>)),
      Sensor(<<"1", "2", "V", "_", "D", "U", "A", "L">>, "Voltage", "V",
             JText(<<"1", "1">>)),
      Sensor(<<"5", "V">>, "Voltage", "V",
             JText(<<"5">>)),
      Sensor(<<"5", "V", "_", "D", "U", "A", "L">>, "Voltage", "V",
             JText(<<"4">>)),
      Sensor(<<"3", ".", "3", "V">>, "Voltage", "V",
             JText(<<"3">>)),
      Sensor(<<"3", ".", "3", "V", "_", "B", "A", "T", "T">>, "Voltage", "V",
             JText(<<"2">>)) >>),
    sensorsC |-> JList(<<
      Sensor(<<"P", "S", "U", "0", "_", "S", "u", "p", "p", "l", "y">>,
             "Power Supply", "",
             JText(<<"P", "r", "e", "s", "e", "n", "c", "e", " ", "d", "e", "t", "e",
                     "c", "t", "e", "d">>)),
      Sensor(<<"P", "S", "U", "1", "_", "S", "u", "p", "p", "l", "y">>,
             "Power Supply", "",
             JText(<<"P", "r", "e", "s", "e", "n", "c", "e", " ", "d", "e", "t", "e",
                     "c", "t", "e", "d", ",", " ", "P", "o", "w", "e", "r", " ", "S",
                     "u", "p", "p", "l", "y", " ", "A", "C", " ", "l", "o", "s", "t">>)),
      Sensor(<<"P", "S", "U", "2", " ", "S", "t", "a", "t", "u", "s">>,
             "Power Supply", "",
             JText(<<"P", "r", "e", "d", "i", "c", "t", "i", "v", "e", " ", "f", "a",
                     "i", "l", "u", "r", "e">>)),
      Sensor(<<"P", "S", "U", "3", " ", "S", "t", "a", "t", "u", "s">>,
             "Power Supply", "",
             JText(<<"D", "e", "g", "r", "a", "d", "e", "d">>)),
      Sensor(<<"P", "S", "U", "4", "_", "S", "u", "p", "p", "l", "y">>,
             "Power Supply", "",
             JText(<<"N", "/", "A">>)),
      Sensor(<<"P", "S", "U", "0", "_", "P", "o", "w", "e", "r">>,
             "Power", "W",
             JText(<<"0">>)) >>),
    sensorsD |-> JList(<<
      Sensor(<<"P", "S", "U", "0", "_", "S", "u", "p", "p", "l", "y">>,
             "Power Supply", "",
             JText(<<"N", "/", "A">>)),
      Sensor(<<"P", "S", "U", "0", "_", "P", "o", "w", "e", "r">>,
             "Power", "W",
             JText(<<"N", "/", "A">>)),
      Sensor(<<"P", "S", "U", "1", "_", "P", "o", "w", "e", "r">>,
             "Power", "W",
             JText(<<"2", "3", "5">>)),
      Sensor(<<"S", "y", "s", "t", "e", "m", " ", "P", "o", "w", "e", "r">>,
             "Power", "W", JText(<<"N", "/", "A">>)),
      Sensor(<<"1", "2", "V">>,
             "Voltage", "V", JText(<<"N", "/", "A">>)),
      Sensor(<<"F", "A", "N", "_", "2">>,
             "Fan", "RPM", JText(<<"N", "/", "A">>)),
      Sensor(<<"E", "x", "h", "a", "u", "s", "t", " ", "T", "e", "m", "p">>,
             "Temperature", "C", JText(<<"N", "/", "A">>)),
      Sensor(<<"A", "m", "b", "i", "e", "n", "t", " ", "T", "e", "m", "p">>,
             "Temperature", "C", JText(<<"N", "/", "A">>)) >>),
    chassisOk |-> JObj([power_fault |-> JStr("false"),
                        chassis_intrusion |-> JStr("inactive")]),
    chassisFault |-> JObj([power_fault |-> JStr("true"),
                           chassis_intrusion |-> JStr("active")]),
    pushCold |->
      JObj([cpu |-> JList(<<JObj([idle |-> JNum(90)]), JObj([idle |-> JNum(75)])>>),
            temperature_celsius |-> JOrd(<<[k |-> "0", v |-> JNum(0)]>>),
            virtual_memory |-> JObj([total |-> JNum(GiB), used |-> JNum(GiB \div 2)]),
            interfaces |-> JOrd(<<[k |-> "em0",
                                   v |-> JObj([link_state |-> JStr("LINK_STATE_UP"),
                                               speed |-> JNum(10000)])]>>)]),
    pushWarm |->
      JObj([cpu |-> JList(<<JObj([idle |-> JNum(40)])>>),
            temperature_celsius |-> JOrd(<<[k |-> "0", v |-> JNum(55)]>>),
            virtual_memory |-> JObj([total |-> JNum(GiB), used |-> JNum(GiB \div 4)]),
            interfaces |-> JOrd(<<[k |-> "lo0",
                                   v |-> JObj([link_state |-> JStr("LINK_STATE_UP"),
                                               received_bytes_rate |-> JNum(512)])],
                                  [k |-> "br0",
                                   v |-> JObj([link_state |-> JStr("LINK_STATE_DOWN"),
                                               speed |-> JNum(100)])]>>)]),
    pushBare |-> JObj([cpu |-> JList(<<>>)]) ]

DataMsgs ==
  { SysInfoResult(JObj([hostname |-> JStr("nas")])),
    ChassisResult(D.chassisOk), ChassisResult(D.chassisFault),
    SensorsResult(D.sensorsA), SensorsResult(D.sensorsB),
    SensorsResult(D.sensorsC), SensorsResult(D.sensorsD),
    PushMsg("added", D.pushCold), PushMsg("changed", D.pushWarm),
    PushMsg("changed", D.pushBare) }

\* The socket's "message" event, for the result of the authentication request.
SockAuthOk(s) == AuthResults(s) < AuthRequests(s) /\ Deliver(s, AuthOk)

\* The socket's "message" event, for a well-formed data frame.
SockData(s) == \E m \in DataMsgs : isAuthenticated /\ Deliver(s, m)

\* The connector with an appliance that answers every request well: the
\* connection opens, authenticates, delivers data, and may drop and come back.
NextData ==
  \/ Boot
  \/ \E s \in SockIds : SockOpen(s)
  \/ \E s \in SockIds : SockAuthOk(s)
  \/ \E s \in SockIds : SockData(s)
  \/ \E s \in SockIds : SockClose(s)
  \/ ReconnectFire
SpecData == Init /\ [][NextData]_vars

\* ------------------------------------------------ the service's event loop
connVars == <<booted, token, ws, sock, isConnected, isAuthenticated, ipmiInterval,
              pollTimers, reconnectTimers, wire, attempts, crashed, hostname,
              ipmiSensors, ipmiChassis, latestMetrics, latestEnvironment>>

\* The pending collectMetrics() calls made by who: 0 for the calls of
\* startCollectionLoop, a reader for the call of its getSystemMetrics().
CallsOf(who) == {i \in 1..Len(inflight) : inflight[i].who = who}

\* The pending calls once call i has run to its end: when it stored its
\* snapshot, every call made before it has been overtaken.
Settled(q, i, stored) ==
  [j \in 1..(Len(q) - 1) |->
     IF j < i THEN [q[j] EXCEPT !.overtaken = @ \/ stored] ELSE q[j + 1]]

SvcSelf ==
  [currentMetrics |-> currentMetrics, trendHistory |-> trendHistory,
   lastCycle |-> lastCycle]

SvcCommit(svc) ==
  /\ currentMetrics' = svc.currentMetrics
  /\ trendHistory' = svc.trendHistory
  /\ lastCycle' = svc.lastCycle

\* How the ten readings of a cycle can settle.
Readings == {[ok |-> TRUE, v |-> p] : p \in Probes} \cup {[ok |-> FALSE]}

\* The interval callback of startCollectionLoop: a second has passed and
\* collectMetrics() is called; it runs up to its await.
CollectTick ==
  /\ isCollecting /\ ~crashed
  /\ now < StartMs + MaxTicks * CollectIntervalMs
  /\ now' = now + CollectIntervalMs
  /\ collecting' = collecting + 1
  /\ inflight' = Append(inflight, Called(0))
  /\ UNCHANGED <<connVars, isCollecting, currentMetrics, trendHistory, lastCycle,
                 calls, trends, timeRange, chart>>

\* A collectMetrics() call of the loop resumes from its await and runs to its end.
CollectResume ==
  \E rd \in Readings, i \in CallsOf(0) :
    /\ collecting > 0 /\ ~crashed
    /\ collecting' = collecting - 1
    /\ inflight' = Settled(inflight, i, rd.ok)
    /\ SvcCommit(collectMetrics(SvcSelf, rd, Self, now))
    /\ UNCHANGED <<connVars, isCollecting, now, calls, trends, timeRange, chart>>

\* The failure getSystemMetrics() throws.
Failure == [t |-> "error", message |-> "Failed to collect system metrics"]

\* (mutant) getSystemMetrics() collects whether or not a snapshot is cached
GetSystemMetrics_AlwaysCollect(r) ==
  /\ booted /\ ~crashed /\ calls[r].pc = "idle"
  /\ calls' = [calls EXCEPT ![r].pc = "collecting"]
  /\ inflight' = Append(inflight, Called(r))
  /\ UNCHANGED <<connVars, isCollecting, collecting, currentMetrics, trendHistory,
                 now, lastCycle, trends, timeRange, chart>>

\* getSystemMetrics() is called (the status route): it returns the cached
\* snapshot, or calls collectMetrics() and awaits it.
GetSystemMetrics(r) ==
  /\ booted /\ ~crashed /\ calls[r].pc = "idle"
  /\ calls' = [calls EXCEPT ![r] =
                 IF currentMetrics # JNull
                 THEN [pc |-> "returned", out |-> currentMetrics, own |-> JNull]
                 ELSE [pc |-> "collecting", out |-> JNull, own |-> JNull]]
  /\ inflight' = IF currentMetrics # JNull THEN inflight
                 ELSE Append(inflight, Called(r))
  /\ UNCHANGED <<connVars, isCollecting, collecting, currentMetrics, trendHistory,
                 now, lastCycle, trends, timeRange, chart>>

\* The collectMetrics() call made by getSystemMetrics() resumes from its
\* await and runs to its end; the caller is then ready to resume.  own notes
\* what this collection came to: the snapshot it installed, or the failure.
OwnCollectResume(r) ==
  \E rd \in Readings, i \in CallsOf(r) :
    /\ ~crashed /\ calls[r].pc = "collecting"
    /\ inflight' = Settled(inflight, i, rd.ok)
    /\ SvcCommit(collectMetrics(SvcSelf, rd, Self, now))
    /\ calls' = [calls EXCEPT ![r].pc = "collected",
                              ![r].own = IF rd.ok THEN currentMetrics' ELSE Failure]
    /\ UNCHANGED <<connVars, isCollecting, collecting, now, trends, timeRange, chart>>

\* getSystemMetrics() resumes after `await this.collectMetrics()`.
GetSystemMetricsResume(r) ==
  /\ ~crashed /\ calls[r].pc = "collected"
  /\ calls' = [calls EXCEPT ![r].pc = "returned",
                            ![r].out = IF currentMetrics # JNull THEN currentMetrics
                                       ELSE Failure]
  /\ UNCHANGED <<connVars, isCollecting, collecting, currentMetrics, trendHistory,
                 now, lastCycle, trends, timeRange, chart, inflight>>

\* The service and the callers of getSystemMetrics(), the appliance not
\* answering the connection request.
NextService ==
  \/ Boot
  \/ CollectTick
  \/ CollectResume
  \/ \E r \in Readers : GetSystemMetrics(r)
  \/ \E r \in Readers : OwnCollectResume(r)
  \/ \E r \in Readers : GetSystemMetricsResume(r)
SpecService == Init /\ [][NextService]_vars

\* The collection loop next to a connector whose appliance answers well.
NextMerge ==
  \/ Boot
  \/ \E s \in SockIds : SockOpen(s)
  \/ \E s \in SockIds : SockAuthOk(s)
  \/ \E s \in SockIds : SockData(s)
  \/ \E s \in SockIds : SockClose(s)
  \/ CollectTick
  \/ CollectResume
\* The same start, with the API key as the configured token.
InitMerge == Init /\ token.text = "key"
SpecMerge == InitMerge /\ [][NextMerge]_vars

\* The results the appliance may give to the system.info request: with a
\* hostname, without one, and with an empty one.
IdentityMsgs ==
  { SysInfoResult(JObj([hostname |-> JStr("nas")])),
    SysInfoResult(JObj([version |-> JStr("25.04")])),
    SysInfoResult(JObj([hostname |-> JStr("")])) }

\* The socket's "message" event, for a result of the system.info request.
SockIdentity(s) == \E m \in IdentityMsgs : isAuthenticated /\ Deliver(s, m)

\* The collection loop next to a connector whose appliance identifies
\* itself, drops the connection and comes back.
NextHost ==
  \/ Boot
  \/ \E s \in SockIds : SockOpen(s)
  \/ \E s \in SockIds : SockAuthOk(s)
  \/ \E s \in SockIds : SockIdentity(s)
  \/ \E s \in SockIds : SockClose(s)
  \/ ReconnectFire
  \/ CollectTick
  \/ CollectResume
SpecHost == InitMerge /\ [][NextHost]_vars

\* The socket's "message" event, for a frame whose handling throws.
SockBad(s) == \E m \in Malformed : isAuthenticated /\ Deliver(s, m)

\* The connector with an appliance that answers well or badly: data frames
\* and frames whose handling throws, in any order.
NextFaulty ==
  \/ Boot
  \/ \E s \in SockIds : SockOpen(s)
  \/ \E s \in SockIds : SockAuthOk(s)
  \/ \E s \in SockIds : SockData(s)
  \/ \E s \in SockIds : SockBad(s)
  \/ \E s \in SockIds : SockClose(s)
  \/ ReconnectFire
SpecFaulty == InitMerge /\ [][NextFaulty]_vars

\* connect() is called from outside (it is public), whatever the state of
\* the current socket, while no reconnection is scheduled.
ConnectCall ==
  /\ booted /\ reconnectTimers = <<>>
  /\ FreeIds(Self) # {} \/ ws # 0
  /\ Commit(connect(Self))

\* The connector with connect() called at any moment besides its own
\* reconnections.
NextConnect == Next \/ ConnectCall
SpecConnect == InitMerge /\ [][NextConnect]_vars

\* ------------------------------------------------ the trends and the charts
\* GET /trends, and the hook's setTrends() with the render that follows.
FetchTrends ==
  /\ booted /\ ~crashed
  /\ trends' = getTrends(trendHistory)
  /\ chart' = HardwareTrends(trends', timeRange, now)
  /\ UNCHANGED <<connVars, isCollecting, collecting, currentMetrics, trendHistory,
                 now, lastCycle, calls, timeRange, inflight>>

\* A button of the range selector is pressed: setTimeRange(w) and the render
\* that follows.
SetTimeRange(w) ==
  /\ w # timeRange
  /\ timeRange' = w
  /\ chart' = HardwareTrends(trends, w, now)
  /\ UNCHANGED <<connVars, isCollecting, collecting, currentMetrics, trendHistory,
                 now, lastCycle, calls, trends, inflight>>

\* The connector as its constructor leaves it.
Fresh ==
  [ws |-> 0, sock |-> [s \in SockIds |-> [readyState |-> "CLOSED", listeners |-> FALSE]],
   isConnected |-> FALSE, isAuthenticated |-> FALSE, ipmiInterval |-> "null",
   pollTimers |-> 0, reconnectTimers |-> <<>>, wire |-> [s \in SockIds |-> <<>>],
   attempts |-> 0, hostname |-> JNull, ipmiSensors |-> JList(<<>>),
   ipmiChassis |-> EmptyObject,
   latestMetrics |-> [cpu |-> JUndef, memory |-> JUndef, network |-> JUndef,
                      power |-> JUndef, security |-> JUndef],
   latestEnvironment |-> EmptyObject, thrown |-> FALSE]

\* The longest the service has run when the dashboard is opened, in cycles.
MaxWarmup == 90

\* The trend history after n cycles, one a second up to StartMs, that all
\* read the probe p while the appliance had sent nothing.
SteadyHistory(p, n) ==
  Bind(updateTrendHistory([cpu |-> <<>>, memory |-> <<>>, disk |-> <<>>, network |-> <<>>],
                          Snapshot(p, connect(Fresh), StartMs), StartMs), LAMBDA one :
    [k \in {"cpu", "memory", "disk", "network"} |->
       [i \in 1..n |->
          [timestamp |-> toISOString(StartMs - (n - i) * CollectIntervalMs),
           value |-> one[k][1].value]]])

\* The service has run for n seconds, n in N, the appliance never answering:
\* the state after Boot and n cycles (the first of them still awaits its
\* readings when n = 0).  The dashboard has just been mounted.
Running(N) ==
  /\ booted = TRUE
  /\ token \in Tokens
  /\ token.text = "key"
  /\ \E o \in {connect(Fresh)} :
       /\ ws = o.ws /\ sock = o.sock /\ wire = o.wire /\ attempts = o.attempts
       /\ isConnected = o.isConnected /\ isAuthenticated = o.isAuthenticated
       /\ ipmiInterval = o.ipmiInterval /\ pollTimers = o.pollTimers
       /\ reconnectTimers = o.reconnectTimers /\ hostname = o.hostname
       /\ ipmiSensors = o.ipmiSensors /\ ipmiChassis = o.ipmiChassis
       /\ latestMetrics = o.latestMetrics /\ latestEnvironment = o.latestEnvironment
       /\ crashed = FALSE
       /\ \E n \in N, p \in Probes :
            /\ trendHistory = SteadyHistory(p, n)
            /\ collecting = IF n = 0 THEN 1 ELSE 0
            /\ inflight = IF n = 0 THEN <<Called(0)>> ELSE <<>>
            /\ currentMetrics = IF n = 0 THEN JNull ELSE Snapshot(p, o, StartMs)
            /\ lastCycle = IF n = 0 THEN "none" ELSE "ok"
  /\ isCollecting = TRUE
  /\ now = StartMs
  /\ calls = [r \in Readers |-> [pc |-> "idle", out |-> JNull, own |-> JNull]]
  /\ trends = JNull
  /\ timeRange = DefaultRange
  /\ chart = HardwareTrends(JNull, DefaultRange, StartMs)

\* The collection loop of a service that starts, or whose trend series are
\* full or one sample short of it.
InitTrend == Running({0, MAX_HISTORY - 1, MAX_HISTORY})
NextTrend ==
  \/ CollectTick
  \/ CollectResume
SpecTrend == InitTrend /\ [][NextTrend]_vars

\* The collection loop and a dashboard that polls /trends, opened when the
\* service starts or MaxWarmup seconds later.
InitDashboard == Running({0, MaxWarmup})
NextDashboard ==
  \/ CollectTick
  \/ CollectResume
  \/ FetchTrends
  \/ \E w \in TimeRanges : SetTimeRange(w)
SpecDashboard == InitDashboard /\ [][NextDashboard]_vars

\* ================================================================= claims
Live(s) == sock[s].listeners /\ sock[s].readyState \in {"CONNECTING", "OPEN", "CLOSING"}
LiveSockets == {s \in SockIds : Live(s)}

\* The step delivers socket s's "close" event to the client.
CloseEvent(s) ==
  /\ sock[s].listeners /\ sock[s].readyState # "CLOSED"
  /\ sock'[s].listeners /\ sock'[s].readyState = "CLOSED"

IsOut(e) == e.dir = "out"
IsIn(e) == e.dir = "in"
IsTick(e) == e.dir = "tick"
IsPollReq(e) == IsOut(e) /\ e.m \in {ChassisReq, SensorsReq}
IsAuthReq(e) == IsOut(e) /\ e.m.msg = "method" /\ IdIs(e.m.id, "auth_request")
IsAuthFailure(e) == IsIn(e) /\ IsAuthResult(e.m) /\ ~IsTrue(e.m.result)
IsPing(e) == IsIn(e) /\ e.m.ok /\ e.m.obj /\ e.m.msg = "ping"
IsPong(e) == IsOut(e) /\ e.m.msg = "pong"
Has(q, e) == \E i \in 1..Len(q) : q[i] = e
Count(q, P(_)) == Len(SelectSeq(q, P))

\* The frames the step appends to socket s's wire.
Appended(s) ==
  IF Len(wire'[s]) >= Len(wire[s]) /\ SubSeq(wire'[s], 1, Len(wire[s])) = wire[s]
  THEN SubSeq(wire'[s], Len(wire[s]) + 1, Len(wire'[s]))
  ELSE <<>>

Connecting == ws # 0 /\ sock[ws].listeners /\ sock[ws].readyState = "CONNECTING"

\* C1: a transport closure, in whatever state the connection is, clears the
\* connected and authenticated flags and schedules exactly one reconnect timer;
\* every reconnect timer has the fixed delay of 5000 ms, whichever attempt
\* failed (no backoff); and a pending timer leads to a new connection attempt.
C1_CloseSchedulesReconnect ==
  /\ [][\A s \in SockIds : CloseEvent(s) =>
          /\ ~isConnected' /\ ~isAuthenticated'
          /\ reconnectTimers' = Append(reconnectTimers, ReconnectDelayMs)]_vars
  /\ [](\A i \in 1..Len(reconnectTimers) : reconnectTimers[i] = ReconnectDelayMs)
  /\ (Len(reconnectTimers) > 0) ~> (reconnectTimers = <<>> /\ Connecting)

\* C1 witness: an authenticated connection, not the first one, has closed and
\* its reconnect timer is pending with the fixed delay.
C1_Witness ==
  /\ attempts >= 2 /\ ws # 0 /\ sock[ws].readyState = "CLOSED"
  /\ Has(wire[ws], In(AuthOk))
  /\ reconnectTimers = <<ReconnectDelayMs>>
  /\ ~isConnected /\ ~isAuthenticated

\* C2: when the transport closes while authenticated, the close handler
\* stops the poll timer and schedules a reconnect; while unauthenticated no
\* poll timer runs and no step sends a chassis-info or sensor-list request;
\* and the closure leads to a new connection attempt.
C2_CloseStopsPolling ==
  /\ [][\A s \in SockIds : (CloseEvent(s) /\ isAuthenticated) =>
          /\ pollTimers' = 0
          /\ Len(reconnectTimers') = Len(reconnectTimers) + 1]_vars
  /\ [](~isAuthenticated => pollTimers = 0)
  /\ [][\A s \in SockIds : (\E i \in 1..Len(Appended(s)) : IsPollReq(Appended(s)[i]))
          => isAuthenticated']_vars
  /\ (ws # 0 /\ sock[ws].readyState = "CLOSED" /\ Has(wire[ws], In(AuthOk))
        /\ Len(reconnectTimers) > 0) ~> Connecting

\* C2 witness: the socket closed after the poll timer had ticked on it; no
\* poll timer is left.
C2_Witness ==
  /\ ws # 0 /\ sock[ws].readyState = "CLOSED"
  /\ Has(wire[ws], In(AuthOk))
  /\ \E i \in 1..Len(wire[ws]) : IsTick(wire[ws][i])
  /\ pollTimers = 0 /\ ipmiInterval = "cleared" /\ Len(reconnectTimers) = 1

\* C3: the sockets that still deliver events to the client and the pending
\* reconnect timers are never more than one in all.
C3_OneConnection == Cardinality(LiveSockets) + Len(reconnectTimers) <= 1

\* C3 witness: a later connection attempt is the only live socket, its
\* predecessor's reconnect timer having fired.
C3_Witness ==
  /\ attempts >= 2 /\ Cardinality(LiveSockets) = 1 /\ reconnectTimers = <<>>
  /\ \E s \in SockIds : s # ws /\ sock[s].readyState = "CLOSED"

\* C4: on every connection, the host-identity query, the subscribe request
\* and the poll requests are sent only after an authentication success was
\* received on it, a poll timer runs only then, and the success is followed at
\* once by the query, the subscription and the first poll, with the timer armed.
C4_AfterAuthSuccess ==
  /\ \A s \in SockIds : \A i \in 1..Len(wire[s]) :
       (IsOut(wire[s][i]) /\ wire[s][i].m \in {SysInfoReq, SubReq, ChassisReq, SensorsReq})
         => \E j \in 1..(i - 1) : wire[s][j] = In(AuthOk)
  /\ pollTimers > 0 => (ws # 0 /\ Has(wire[ws], In(AuthOk)))
  /\ \A s \in SockIds : \A i \in 1..Len(wire[s]) :
       wire[s][i] = In(AuthOk) =>
         /\ i + 4 <= Len(wire[s])
         /\ SubSeq(wire[s], i + 1, i + 4) =
              <<Out(SysInfoReq), Out(SubReq), Out(ChassisReq), Out(SensorsReq)>>
  /\ isAuthenticated => (pollTimers = 1 /\ ipmiInterval = "live")

\* C4 witness: the success arrived after another frame, and the three
\* follow-ups are on the wire with the timer armed.
C4_Witness ==
  /\ ws # 0 /\ isAuthenticated /\ pollTimers = 1
  /\ Len(wire[ws]) = 9
  /\ IsPing(wire[ws][3])
  /\ SubSeq(wire[ws], 5, 9) =
       <<In(AuthOk), Out(SysInfoReq), Out(SubReq), Out(ChassisReq), Out(SensorsReq)>>

C6_HandshakeThenAuth ==
  \A s \in SockIds :
    /\ (sock[s].listeners /\ sock[s].readyState = "OPEN") => Len(wire[s]) >= 2
    /\ wire[s] # <<>> =>
         /\ Len(wire[s]) >= 2
         /\ wire[s][1] = Out(HandshakeReq)
         /\ wire[s][2] = Out(authRequest(token))
         /\ Count(wire[s], IsAuthReq) = 1

\* C6 witness: a reconnection opened, sent both frames and then received
\* and sent more.
C6_Witness ==
  /\ attempts >= 2 /\ ws # 0 /\ sock[ws].readyState = "OPEN"
  /\ Len(wire[ws]) > 4
  /\ wire[ws][3] = In(Connected)

\* C7: every probe received is followed at once on the wire by one echo
\* with the probe's id, and no other echo is ever sent.
C7_PingEchoed ==
  \A s \in SockIds :
    /\ \A i \in 1..Len(wire[s]) :
         IsPing(wire[s][i]) =>
           /\ i < Len(wire[s])
           /\ wire[s][i + 1] = Out(Pong(wire[s][i].m.id))
    /\ Count(wire[s], IsPong) = Count(wire[s], IsPing)

\* C7 witness: two probes with different ids arrived before any
\* authentication result, and each was echoed with its own id.
C7_Witness ==
  /\ ws # 0 /\ ~isAuthenticated /\ sock[ws].readyState = "OPEN"
  /\ Len(wire[ws]) = 6
  /\ wire[ws][3] = In(PingMsg("p1")) /\ wire[ws][4] = Out(Pong(StrId("p1", "")))
  /\ wire[ws][5] = In(PingMsg("p2")) /\ wire[ws][6] = Out(Pong(StrId("p2", "")))

\* The step delivers frame m to the client on socket s.
MessageEvent(s, m) ==
  /\ Len(wire'[s]) > Len(wire[s])
  /\ SubSeq(wire'[s], 1, Len(wire[s])) = wire[s]
  /\ wire'[s][Len(wire[s]) + 1] = In(m)

\* C8: a frame that is no JSON, or is JSON of an unexpected shape, has no
\* fatal effect: no exception ever escapes a callback, and the step that
\* delivers such a frame leaves the socket open, the authenticated flag, the
\* poll timer and its handle as they were, and sends nothing.
C8_MalformedDropped ==
  /\ [](~crashed)
  /\ [][\A s \in SockIds : \A m \in Malformed : MessageEvent(s, m) =>
          /\ sock'[s] = sock[s] /\ sock'[s].readyState = "OPEN" /\ ws' = ws
          /\ isConnected' = isConnected
          /\ isAuthenticated' = isAuthenticated
          /\ pollTimers' = pollTimers /\ ipmiInterval' = ipmiInterval
          /\ reconnectTimers' = reconnectTimers
          /\ Appended(s) = <<In(m)>>]_vars

\* C8 witness: text that is no JSON arrived on an authenticated connection,
\* which is still open, authenticated and polling.
C8_Witness ==
  /\ ws # 0 /\ sock[ws].readyState = "OPEN" /\ ~crashed
  /\ isAuthenticated /\ pollTimers = 1
  /\ Has(wire[ws], In(AuthOk))
  /\ wire[ws][Len(wire[ws])] = In(Garbage)

\* C9 as stated: the poll timer runs only while authenticated, and every
\* tick of it is followed by one chassis-info and one sensor-list request.
C9_EveryTickSendsBoth ==
  /\ pollTimers > 0 => isAuthenticated
  /\ \A s \in SockIds : \A i \in 1..Len(wire[s]) :
       IsPollReq(wire[s][i]) =>
         \E j \in 1..(i - 1) : wire[s][j] = In(AuthOk) \/ IsTick(wire[s][j])
  /\ \A s \in SockIds : \A i \in 1..Len(wire[s]) :
       IsTick(wire[s][i]) =>
         /\ i + 2 <= Len(wire[s])
         /\ wire[s][i + 1] = Out(ChassisReq)
         /\ wire[s][i + 2] = Out(SensorsReq)

\* C9 amended: the poll timer runs only while authenticated; a tick on an
\* open socket is followed by exactly one chassis-info and one sensor-list
\* request, and a tick on a socket that is no longer open sends nothing.
C9_TickSendsBothWhenOpen ==
  /\ pollTimers > 0 => isAuthenticated
  /\ \A s \in SockIds : \A i \in 1..Len(wire[s]) :
       IsPollReq(wire[s][i]) =>
         \E j \in 1..(i - 1) : wire[s][j] = In(AuthOk) \/ IsTick(wire[s][j])
  /\ \A s \in SockIds : \A i \in 1..Len(wire[s]) :
       IsTick(wire[s][i]) =>
         IF wire[s][i].readyState = "OPEN"
         THEN /\ i + 2 <= Len(wire[s])
              /\ wire[s][i + 1] = Out(ChassisReq)
              /\ wire[s][i + 2] = Out(SensorsReq)
              /\ i + 3 <= Len(wire[s]) => ~IsPollReq(wire[s][i + 3])
         ELSE i + 1 <= Len(wire[s]) => ~IsOut(wire[s][i + 1])

\* C9 witness: the timer ticked on an open, authenticated socket and both
\* requests followed.
C9_Witness ==
  /\ ws # 0 /\ isAuthenticated /\ pollTimers = 1
  /\ \E i \in 1..Len(wire[ws]) :
       /\ wire[ws][i] = TickAt("OPEN")
       /\ i + 2 <= Len(wire[ws])
       /\ wire[ws][i + 2] = Out(SensorsReq)

\* C10: at most one poll timer runs at any moment, it runs whenever the
\* client is authenticated, and every authentication success, the first on a
\* connection or a repeated one, is followed by an immediate poll.
C10_OnePollTimer ==
  /\ pollTimers <= 1
  /\ isAuthenticated => pollTimers = 1
  /\ \A s \in SockIds : \A i \in 1..Len(wire[s]) :
       wire[s][i] = In(AuthOk) =>
         /\ i + 4 <= Len(wire[s])
         /\ wire[s][i + 3] = Out(ChassisReq)
         /\ wire[s][i + 4] = Out(SensorsReq)

\* C10 witness: on a connection made after a drop, the success result was
\* received twice and one timer runs.
C10_Witness ==
  /\ attempts >= 2 /\ ws # 0 /\ isAuthenticated /\ pollTimers = 1
  /\ Count(wire[ws], LAMBDA e : e = In(AuthOk)) = 2

\* The step delivers an IPMI result (a sensor list or a chassis record).
SensorLists == {D.sensorsA, D.sensorsB, D.sensorsC, D.sensorsD}
IpmiEvent ==
  \E s \in SockIds :
    \E m \in {SensorsResult(l) : l \in SensorLists}
              \cup {ChassisResult(D.chassisOk), ChassisResult(D.chassisFault)} :
      MessageEvent(s, m)

\* C11: the cached power and environment fragments are the classification of
\* the most recently received sensor list together with the most recently
\* received chassis record.  Each result is applied in the step that
\* delivers it, with whatever the other query returned last (nothing, at
\* first), and no other step touches the two stored payloads or the two
\* fragments.
C11_IpmiCacheIsLatestPair ==
  [][ /\ \A s \in SockIds : \A l \in SensorLists :
           MessageEvent(s, SensorsResult(l)) =>
             /\ ipmiSensors' = l /\ ipmiChassis' = ipmiChassis
             /\ latestMetrics'.power = mapIPMIPower(l.items, ipmiChassis)
             /\ latestEnvironment' = mapIPMIEnvironment(l.items, ipmiChassis)
      /\ \A s \in SockIds : \A c \in {D.chassisOk, D.chassisFault} :
           MessageEvent(s, ChassisResult(c)) =>
             /\ ipmiChassis' = c /\ ipmiSensors' = ipmiSensors
             /\ latestMetrics'.power = mapIPMIPower(ipmiSensors.items, c)
             /\ latestEnvironment' = mapIPMIEnvironment(ipmiSensors.items, c)
      /\ ~IpmiEvent =>
           /\ ipmiSensors' = ipmiSensors /\ ipmiChassis' = ipmiChassis
           /\ latestMetrics'.power = latestMetrics.power
           /\ latestEnvironment' = latestEnvironment ]_vars

\* C11 witness: the second sensor list was applied while no chassis record
\* had arrived yet (its fragments stand), and the cache now holds the
\* fragments of a later chassis record with that list.
C11_Witness ==
  /\ ipmiSensors = D.sensorsB /\ ipmiChassis = D.chassisFault
  /\ latestMetrics.power = mapIPMIPower(D.sensorsB.items, D.chassisFault)
  /\ latestMetrics.power # mapIPMIPower(D.sensorsB.items, EmptyObject)
  /\ latestMetrics.power # mapIPMIPower(D.sensorsA.items, D.chassisFault)
  /\ latestEnvironment = mapIPMIEnvironment(D.sensorsB.items, D.chassisFault)
  /\ latestEnvironment # mapIPMIEnvironment(D.sensorsB.items, D.chassisOk)

\* The realtime pushes of the data specification.
Pushes == {PushMsg("added", D.pushCold), PushMsg("changed", D.pushWarm),
           PushMsg("changed", D.pushBare)}

\* The step delivers a realtime push.
PushEvent == \E s \in SockIds : \E m \in Pushes : MessageEvent(s, m)

\* The fragments mapped from the fields of a push alone.
PushedCpu(f) == mapCPU(Get(f, "cpu"), Get(f, "temperature_celsius"))
PushedMemory(f) == mapMemory(Get(f, "virtual_memory"), Get(f, "zfs"))
PushedNetwork(f) == mapNetwork(Get(f, "interfaces"))

\* The positive CPU temperature readings of the stored sensor list.
StoredCpuTemps == cpuTemps(ipmiSensors.items)

\* C12 (as stated): every push replaces the cached CPU, memory and network
\* fragments by the values mapped from that push, and leaves the cached power
\* and security fragments as they were.
C12_PushReplacesFragments ==
  [][ \A s \in SockIds : \A m \in Pushes :
        MessageEvent(s, m) =>
          /\ latestMetrics'.cpu = PushedCpu(m.fields)
          /\ latestMetrics'.memory = PushedMemory(m.fields)
          /\ latestMetrics'.network = PushedNetwork(m.fields)
          /\ latestMetrics'.power = latestMetrics.power
          /\ latestMetrics'.security = latestMetrics.security ]_vars

\* C12 (amended): every push replaces the cached memory and network fragments
\* by the values mapped from that push and the CPU fragment by the one mapped
\* from that push, whose temperature, when the push reports a package
\* temperature of zero, is taken from the positive CPU temperature readings
\* of the stored sensor list if there are any; power and security stay as
\* they were.  Between pushes memory and network do not change, and the CPU
\* fragment changes in its temperature only.
C12_PushReplacesButTemperature ==
  [][ /\ \A s \in SockIds : \A m \in Pushes :
           MessageEvent(s, m) =>
             /\ latestMetrics'.cpu =
                  IF PushedCpu(m.fields).temperature_celsius.package = JNum(0)
                       /\ StoredCpuTemps # <<>>
                  THEN [PushedCpu(m.fields) EXCEPT !.temperature_celsius =
                          [package |-> MaxTemp(StoredCpuTemps),
                           cores |-> StoredCpuTemps]]
                  ELSE PushedCpu(m.fields)
             /\ latestMetrics'.memory = PushedMemory(m.fields)
             /\ latestMetrics'.network = PushedNetwork(m.fields)
             /\ latestMetrics'.power = latestMetrics.power
             /\ latestMetrics'.security = latestMetrics.security
      /\ ~PushEvent =>
           /\ latestMetrics'.memory = latestMetrics.memory
           /\ latestMetrics'.network = latestMetrics.network
           /\ \/ latestMetrics'.cpu = latestMetrics.cpu
              \/ /\ latestMetrics.cpu # JUndef
                 /\ latestMetrics'.cpu =
                      [latestMetrics.cpu EXCEPT !.temperature_celsius =
                         latestMetrics'.cpu.temperature_celsius] ]_vars

\* C12 witness: a push reporting no CPU temperature was the last frame
\* received; the cache holds its CPU load, memory and network, the CPU
\* temperature of the sensor list stored before, and the power fragment of
\* that list.
C12_Witness ==
  /\ ws # 0 /\ wire[ws] # <<>>
  /\ wire[ws][Len(wire[ws])] = In(PushMsg("added", D.pushCold))
  /\ ipmiSensors = D.sensorsA
  /\ latestMetrics.memory = PushedMemory(D.pushCold)
  /\ latestMetrics.network = PushedNetwork(D.pushCold)
  /\ latestMetrics.cpu.utilization_percent = PushedCpu(D.pushCold).utilization_percent
  /\ latestMetrics.cpu.temperature_celsius.package = JNum(41)
  /\ latestMetrics.power = mapIPMIPower(D.sensorsA.items, ipmiChassis)

C14_OneConnectorStatePerCycle ==
  /\ [](collecting > 0 /\ ~crashed => ENABLED CollectResume)
  /\ [][ currentMetrics' # currentMetrics =>
           /\ UNCHANGED connVars
           /\ \E p \in Probes :
                /\ currentMetrics'.data.hardware =
                     mergedHardware(localHardware(p, toISOString(now)), latestMetrics)
                /\ currentMetrics'.data.environment = environmentOf(Self)
                /\ currentMetrics'.meta.hostname = realHostname(p, Self) ]_vars

\* C14 witness: the cached snapshot was built while the connection was
\* authenticated and a sensor list was stored: its power region and its
\* environment are the connector's, its CPU region is local.
C14_Witness ==
  /\ currentMetrics # JNull /\ isAuthenticated
  /\ ipmiSensors = D.sensorsA
  /\ currentMetrics.data.environment = latestEnvironment
  /\ currentMetrics.data.hardware.power = latestMetrics.power
  /\ latestMetrics.cpu = JUndef
  /\ \E p \in Probes : currentMetrics.data.hardware.cpu = mapCpuMetrics(p)

C16_FailureSurfaced ==
  [][ \A r \in Readers :
        calls[r].pc # "returned" /\ calls'[r].pc = "returned" /\ lastCycle = "failed"
          => calls'[r].out = Failure ]_vars

\* The appliance has supplied nothing: no push and no poll result was applied.
NoApplianceData ==
  /\ latestMetrics = [cpu |-> JUndef, memory |-> JUndef, network |-> JUndef,
                      power |-> JUndef, security |-> JUndef]
  /\ latestEnvironment = EmptyObject

\* C17 (as stated): a cycle that ends while the appliance has supplied no data
\* raises no error and installs a snapshot of which the CPU, memory, network,
\* power and security regions are the local or simulated ones and the
\* environment is the simulated one.
C17_NoDataFallsBack ==
  [][ NoApplianceData /\ lastCycle' = "ok"
        /\ <<currentMetrics, lastCycle, trendHistory>>' # <<currentMetrics, lastCycle, trendHistory>>
      => \E p \in Probes :
           /\ currentMetrics'.data.hardware = localHardware(p, toISOString(now))
           /\ currentMetrics'.data.security = getMockSecurityMetrics(toISOString(now))
           /\ currentMetrics'.data.environment = getMockEnvironmentMetrics ]_vars

\* C17 witness: the connection is authenticated, nothing was received
\* after the authentication result, and the cached snapshot has the local
\* hardware regions and an environment that is the connector's empty object.
C17_Witness ==
  /\ isAuthenticated /\ NoApplianceData /\ currentMetrics # JNull
  /\ \E p \in Probes :
       currentMetrics.data.hardware =
         localHardware(p, currentMetrics.meta.collection_timestamp)
  /\ currentMetrics.data.environment = EmptyObject
  /\ currentMetrics.data.environment # getMockEnvironmentMetrics

TrendKeys == {"cpu", "memory", "disk", "network"}
\* The series new is the series old with one sample of clock t appended,
\* the oldest sample of old dropped if old was full.
AppendedTo(old, new, t) ==
  /\ Len(new) = Min(Len(old) + 1, MAX_HISTORY)
  /\ new[Len(new)].timestamp = toISOString(t)
  /\ \A i \in 1..(Len(new) - 1) : new[i] = old[i + (Len(old) + 1 - Len(new))]

\* C18: no trend series ever holds more than 3600 samples; a cycle that
\* succeeds appends one sample to every series, and on a full series the
\* oldest sample is the one dropped, the others keeping their order, so the
\* series holds the 3600 most recent samples in arrival order; nothing else
\* changes a series.
C18_OldestEvicted ==
  /\ [](\A k \in TrendKeys : Len(trendHistory[k]) <= MAX_HISTORY)
  /\ [][IF collecting' < collecting /\ lastCycle' = "ok"
        THEN /\ \A k \in TrendKeys : AppendedTo(trendHistory[k], trendHistory'[k], now)
             /\ trendHistory'.cpu[Len(trendHistory'.cpu)].value
                  = currentMetrics'.data.hardware.cpu.utilization_percent
             /\ trendHistory'.memory[Len(trendHistory'.memory)].value
                  = currentMetrics'.data.hardware.memory.usage_percent
        ELSE trendHistory' = trendHistory]_vars
\* A series that was one sample short of full has taken two more samples.
C18_Witness ==
  /\ Len(trendHistory.cpu) = MAX_HISTORY
  /\ getTime(trendHistory.cpu[MAX_HISTORY].timestamp) = StartMs + 2 * CollectIntervalMs
  /\ getTime(trendHistory.cpu[MAX_HISTORY - 1].timestamp) = StartMs + CollectIntervalMs
  /\ getTime(trendHistory.cpu[1].timestamp)
       = StartMs - (MAX_HISTORY - 3) * CollectIntervalMs

\* The response r describes the series h: it carries h whole, current is
\* the last sample, min and max are the least and the greatest retained
\* value with the average between them, and all four are zero for an
\* empty series.
Describes(r, h) ==
  /\ r.data = h
  /\ IF h = <<>>
     THEN r.current = JNum(0) /\ r.average = FZero /\ r.min = JNum(0) /\ r.max = JNum(0)
     ELSE /\ r.current = h[Len(h)].value
          /\ \E i \in 1..Len(h) : r.min = h[i].value
          /\ \E i \in 1..Len(h) : r.max = h[i].value
          /\ \A i \in 1..Len(h) : NumLeq(r.min, h[i].value) /\ NumLeq(h[i].value, r.max)
          /\ FLeq(ToDouble(r.min), r.average)
          /\ FLeq(r.average, ToDouble(r.max))

\* C19: a /trends query answers, for each metric, with the whole retained
\* series, current the last sample and min <= average <= max over the
\* retained values (all zero for an empty series); the query leaves the
\* series as they were, and while no sample has been appended since, a
\* second query would answer what the first did.
C19_TrendsQuery ==
  /\ [][trends' # trends
          => /\ trendHistory' = trendHistory
             /\ \A k \in TrendKeys : Describes(trends'[k], trendHistory[k])]_vars
  /\ [](trends # JNull /\ (\A k \in TrendKeys : trends[k].data = trendHistory[k])
          => getTrends(trendHistory) = trends)
\* A query answered with an average above the greatest retained CPU sample.
C19_Witness ==
  /\ trends # JNull
  /\ trends.cpu.data = trendHistory.cpu
  /\ Len(trends.cpu.data) >= 3
  /\ ~FLeq(trends.cpu.average, ToDouble(trends.cpu.max))

\* The series the dashboard holds for key k.
Held(k) == IF trends = JNull THEN <<>> ELSE trends[k].data
\* The positions of the series h whose sample is newer than the cutoff.
Newer(h, cutoff) == {i \in 1..Len(h) : getTime(h[i].timestamp) > cutoff}
\* points are exactly the samples of h newer than the cutoff, in h's order.
Windowed(points, h, cutoff) ==
  /\ Len(points) = Cardinality(Newer(h, cutoff))
  /\ \A i \in Newer(h, cutoff) :
       points[Cardinality({j \in Newer(h, cutoff) : j <= i})]
         = <<h[i].timestamp, h[i].value>>

\* C20: what a render hands to a chart is exactly the points of the held
\* series whose timestamp is newer than the clock of the render minus the
\* range, in the order of the series; choosing another range changes
\* neither the held response nor the service's series, so a wider range
\* shows the older points again.
C20_WindowLeavesSeries ==
  /\ [](\A k \in {"cpu", "memory"} : Windowed(chart[k], Held(k), chart.min))
  /\ [][chart' # chart \/ timeRange' # timeRange \/ trends' # trends
          => /\ chart'.min = now - timeRange' * 60 * 1000
             /\ trendHistory' = trendHistory
             /\ timeRange' # timeRange => trends' = trends]_vars
\* The one-minute range is chosen and the held CPU series reaches further
\* back: some points are drawn, the older ones are not, and one sample lies
\* on the cutoff itself.
C20_Witness ==
  /\ timeRange = 1
  /\ chart.cpu # <<>>
  /\ Len(chart.cpu) < Len(Held("cpu"))
  /\ \E i \in 1..Len(Held("cpu")) : getTime(Held("cpu")[i].timestamp) = chart.min

\* ------------------------------------------------------- the merged regions
\* The step installs a snapshot whose local hardware, appliance metrics and
\* merged hardware stand in the relation R.
Merges(R(_, _, _)) ==
  currentMetrics' # currentMetrics =>
    \E p \in Probes :
      /\ currentMetrics' = Snapshot(p, Self, now)
      /\ R(localHardware(p, toISOString(now)), latestMetrics,
           currentMetrics'.data.hardware)
\* The cached snapshot's local hardware, the appliance metrics as they
\* stand and its merged hardware stand in the relation R.
Merged(R(_, _, _)) ==
  /\ currentMetrics # JNull
  /\ \E p \in Probes :
       /\ currentMetrics.data.hardware =
            mergedHardware(localHardware(p, currentMetrics.meta.collection_timestamp),
                           latestMetrics)
       /\ R(localHardware(p, currentMetrics.meta.collection_timestamp),
            latestMetrics, currentMetrics.data.hardware)

\* the "CPU Package" entry of the temperature card
Card(hw) == hw.temperature.coretemp[1]

\* The appliance's CPU fragment is there and its package temperature is 0:
\* the CPU region and the temperature card keep the local temperature.
ZeroTempKeepsLocal(local, real, merged) ==
  real.cpu # JUndef /\ real.cpu.temperature_celsius.package = JNum(0)
    => /\ merged.cpu.temperature_celsius.package = local.cpu.temperature_celsius.package
       /\ Card(merged).current_celsius = Card(local).current_celsius
\* Its package temperature is above 0: both show the appliance's.
RealTempOverrides(local, real, merged) ==
  real.cpu # JUndef /\ Above0(real.cpu.temperature_celsius.package)
    => /\ merged.cpu.temperature_celsius.package = real.cpu.temperature_celsius.package
       /\ Card(merged).current_celsius = real.cpu.temperature_celsius.package

\* C21: when the appliance's CPU fragment has package temperature 0 the
\* merged CPU package temperature is the local (possibly simulated) one;
\* when the appliance's value is above zero the merged CPU package
\* temperature is the appliance's.
C21_ZeroTempIsAbsent ==
  [][Merges(LAMBDA local, real, merged :
       /\ ZeroTempKeepsLocal(local, real, merged)
       /\ RealTempOverrides(local, real, merged))]_vars
\* C21 witness: the cached snapshot was merged with an appliance fragment
\* of package temperature 0, and its CPU region shows 0 where the local
\* reading was above 0.
C21_Witness ==
  Merged(LAMBDA local, real, merged :
    /\ real.cpu # JUndef /\ real.cpu.temperature_celsius.package = JNum(0)
    /\ merged.cpu.temperature_celsius.package = JNum(0)
    /\ Above0(local.cpu.temperature_celsius.package))

\* The appliance has CPU data, and it is not empty.
HasCpuData(real) == real.cpu # JUndef /\ real.cpu.per_core_utilization # <<>>

\* C22: the merged CPU utilization and per-core load are the appliance's
\* when the appliance's CPU data is present and non-empty, and the local
\* ones when it is absent or empty (as after a push without per-core
\* entries).
C22_CpuLoadOverlay ==
  [][Merges(LAMBDA local, real, merged :
       IF HasCpuData(real)
       THEN /\ merged.cpu.utilization_percent = real.cpu.utilization_percent
            /\ merged.cpu.per_core_utilization = real.cpu.per_core_utilization
       ELSE /\ merged.cpu.utilization_percent = local.cpu.utilization_percent
            /\ merged.cpu.per_core_utilization = local.cpu.per_core_utilization)]_vars
\* C22 witness: the cached snapshot was merged with the fragment of a push
\* without per-core entries: its CPU region has no cores and no load, the
\* local reading had both.
C22_Witness ==
  Merged(LAMBDA local, real, merged :
    /\ real.cpu = ZeroCPU
    /\ merged.cpu.per_core_utilization = <<>>
    /\ merged.cpu.utilization_percent = JNum(0)
    /\ merged.cpu.core_count = 0
    /\ local.cpu.per_core_utilization # <<>>
    /\ Above0(local.cpu.utilization_percent))

\* The appliance's interfaces, none when it has no network fragment.
RealIfaces(real) == IF real.network = JUndef THEN <<>> ELSE real.network.interfaces
Named(ifaces, name) == \E i \in 1..Len(ifaces) : ifaces[i].name = name
\* The merged list is the local list, interface by interface, with the
\* appliance's throughput, link state and Speed(l, r) on the matched ones,
\* followed by the appliance's interfaces that have no local namesake.
MatchedByName(local, real, merged, Speed(_, _)) ==
  LET L == local.network.interfaces
      R == RealIfaces(real)
      M == merged.network.interfaces
  IN  /\ Len(M) >= Len(L)
      /\ \A i \in 1..Len(L) :
            IF Named(R, L[i].name)
            THEN \E j \in 1..Len(R) :
                   /\ R[j].name = L[i].name
                   /\ M[i] = [L[i] EXCEPT !.rx_bytes_per_sec = R[j].rx_bytes_per_sec,
                                          !.tx_bytes_per_sec = R[j].tx_bytes_per_sec,
                                          !.status = R[j].status,
                                          !.speed_mbps = Speed(L[i], R[j])]
            ELSE M[i] = L[i]
      /\ SubSeq(M, Len(L) + 1, Len(M)) = SelectSeq(R, LAMBDA r : ~Named(L, r.name))

\* C23: the network merge matches by name: a matched local interface takes
\* the appliance's throughput and link state, and the appliance's speed
\* when that is not 0 (its own otherwise), and keeps its addresses and
\* static fields; unmatched local interfaces are unchanged; the
\* appliance's other interfaces are appended as they are.
C23_NetworkByName ==
  [][Merges(LAMBDA local, real, merged :
       MatchedByName(local, real, merged,
                     LAMBDA l, r : IF r.speed_mbps = JNum(0) THEN l.speed_mbps
                                   ELSE r.speed_mbps))]_vars
\* C23 as stated: the matched interface takes the appliance's speed,
\* whatever it is.
C23_AsStated ==
  [][Merges(LAMBDA local, real, merged :
       MatchedByName(local, real, merged, LAMBDA l, r : r.speed_mbps))]_vars
\* C23 witness: the cached snapshot has a matched interface that took the
\* appliance's link state and kept its own speed and addresses, the
\* appliance reporting none, and an appended interface of the appliance.
C23_Witness ==
  Merged(LAMBDA local, real, merged :
    \E i \in 1..Len(local.network.interfaces), j \in 1..Len(RealIfaces(real)) :
      LET l == local.network.interfaces[i]
          r == RealIfaces(real)[j]
          M == merged.network.interfaces
      IN  /\ l.name = r.name
          /\ r.speed_mbps = JNum(0) /\ M[i].speed_mbps = l.speed_mbps
          /\ l.status # r.status /\ M[i].status = r.status
          /\ M[i].addresses = l.addresses /\ l.addresses # r.addresses
          /\ Len(M) > Len(local.network.interfaces)
          /\ ~Named(local.network.interfaces, M[Len(M)].name))

\* A region of the merged record is the appliance's fragment, whole, when
\* that fragment exists and is marked non-simulated, and the local
\* fragment otherwise.
WholeOrLocal(local, real, merged, region) ==
  IF real[region] # JUndef /\ ~real[region].is_simulated
  THEN merged[region] = real[region]
  ELSE merged[region] = local[region]

\* C24: the merged power region, and likewise the merged security region,
\* is the appliance's fragment taken whole when it is marked non-simulated
\* and the local synthetic fragment unchanged otherwise, never a mix.
C24_PowerSecurityWhole ==
  [][Merges(LAMBDA local, real, merged :
       /\ WholeOrLocal(local, real, merged, "power")
       /\ WholeOrLocal(local, real, merged, "security"))]_vars
\* C24 witness: the cached snapshot's security region carries the
\* appliance's non-simulated mark on the local synthetic fields, and its
\* power region is the appliance's.
C24_Witness ==
  Merged(LAMBDA local, real, merged :
    /\ real.security # JUndef /\ ~real.security.is_simulated
    /\ ~merged.security.is_simulated
    /\ local.security.is_simulated
    /\ merged.security.authentication = local.security.authentication
    /\ merged.security # real.security /\ merged.security # local.security
    /\ real.power # JUndef /\ merged.power = real.power
    /\ merged.power # local.power)

\* The appliance reports a positive total memory capacity.
ReportsCapacity(real) ==
  real.memory # JUndef /\ real.memory # EmptyObject /\ Above0(real.memory.total_gb)

\* C25: the merged memory region is the appliance's memory fragment, every
\* local memory field replaced, when the appliance reports a positive total
\* capacity, and the local memory region unchanged otherwise.
C25_MemoryReplaced ==
  [][Merges(LAMBDA local, real, merged :
       IF ReportsCapacity(real) THEN merged.memory = real.memory
       ELSE merged.memory = local.memory)]_vars
\* C25 witness: the cached snapshot's memory region is the appliance's,
\* and no field of it has the local value, except the two that are
\* constant on both sides.
C25_Witness ==
  Merged(LAMBDA local, real, merged :
    /\ ReportsCapacity(real)
    /\ merged.memory = real.memory
    /\ \A f \in DOMAIN local.memory \ {"total_gb", "page_faults_rate", "memory_errors"} :
         merged.memory[f] # local.memory[f])
\* C25, the other case: a snapshot was cached while the appliance's memory
\* fragment was empty, with the local memory region.
C25_LocalStands ==
  Merged(LAMBDA local, real, merged :
    /\ real.memory = EmptyObject /\ real.cpu # JUndef
    /\ merged.memory = local.memory)

\* The appliance reports a positive CPU package temperature.
PositiveTemp(real) == real.cpu # JUndef /\ Above0(real.cpu.temperature_celsius.package)
\* The local temperature card is flagged simulated exactly when its value
\* is not the sensor's reading.
LocalFlagTellsSource ==
  \A p \in Probes :
    getMockTemperatureMetrics(p).coretemp[1].is_simulated
      <=> getMockTemperatureMetrics(p).coretemp[1].current_celsius # p.tempMain

\* C26: the simulated flag is kept per field: the CPU package temperature
\* entry is flagged simulated exactly when its value is synthetic, whether
\* or not the utilization came from the appliance: with no positive
\* appliance temperature the entry is the local one, flag included, and a
\* positive appliance temperature is shown and flagged non-simulated.
C26_FlagPerField ==
  [][Merges(LAMBDA local, real, merged :
       /\ LocalFlagTellsSource
       /\ Card(merged).is_simulated
            <=> Card(local).is_simulated /\ ~PositiveTemp(real)
       /\ IF PositiveTemp(real)
          THEN Card(merged).current_celsius = real.cpu.temperature_celsius.package
          ELSE Card(merged) = Card(local))]_vars
\* C26 witness: the cached snapshot has the appliance's utilization and a
\* temperature entry still flagged simulated, the appliance having no
\* positive temperature.
C26_Witness ==
  Merged(LAMBDA local, real, merged :
    /\ HasCpuData(real)
    /\ merged.cpu.utilization_percent = real.cpu.utilization_percent
    /\ merged.cpu.utilization_percent # local.cpu.utilization_percent
    /\ ~PositiveTemp(real)
    /\ Card(merged).is_simulated)
\* C26, the other case: the cached snapshot shows the appliance's positive
\* temperature, flagged non-simulated, over a synthetic local value.
C26_RealTempShown ==
  Merged(LAMBDA local, real, merged :
    /\ PositiveTemp(real) /\ Card(local).is_simulated
    /\ ~Card(merged).is_simulated
    /\ Card(merged).current_celsius = real.cpu.temperature_celsius.package)

\* Two cycles found the same local readings and the same container
\* environment: they differ at most in their random draws.
SameFragments(p, q) == [p EXCEPT !.rndPower = q.rndPower, !.rndTemp = q.rndTemp] = q

\* C27: the merge is idempotent: a cycle that runs on the same local,
\* container and appliance fragments as the cycle that produced the cached
\* snapshot, at the same clock reading and with no new data in between,
\* installs a snapshot identical to the cached one.
C27_MergeIdempotent ==
  [][\A p, q \in Probes :
       /\ SameFragments(p, q)
       /\ currentMetrics = Snapshot(q, Self, now)
       /\ currentMetrics' = Snapshot(p, Self, now)
       => currentMetrics' = currentMetrics]_vars
\* C27 witness: a second cycle is under way on the fragments and at the
\* clock reading of the cached snapshot, and another draw of the random
\* jitter gives it another power and temperature figure.
C27_Witness ==
  /\ collecting > 0 /\ currentMetrics # JNull
  /\ \E p, q \in Probes :
       /\ SameFragments(p, q)
       /\ currentMetrics = Snapshot(q, Self, now)
       /\ Snapshot(p, Self, now).data.hardware.power.power_consumption_watts
            # currentMetrics.data.hardware.power.power_consumption_watts
       /\ Card(Snapshot(p, Self, now).data.hardware).current_celsius
            # Card(currentMetrics.data.hardware).current_celsius

\* ------------------------------------------------------ power supply status
\* The power supply status sensors of a sensor list, in the list's order.
StatusSensors(l) == SelectSeq(l.items, IsPsuStatusSensor)
\* The power-draw sensors of the power supplies in a sensor list.
DrawSensors(l) == SelectSeq(l.items, IsPsuPowerSensor)
\* The reading of a sensor, in lower case.
ReadingOf(sn) == StatusText(Get(sn, "reading"))
NotAvailable(sn) == ReadingOf(sn) = T.na
\* The status words of the specification.
SaysHealthy(sn) == includes(ReadingOf(sn), T.ok) \/ includes(ReadingOf(sn), T.presence)
SaysCritical(sn) ==
  \/ includes(ReadingOf(sn), <<"l", "o", "s", "t">>)
  \/ includes(ReadingOf(sn), <<"f", "a", "i", "l", "u", "r", "e">>)
  \/ includes(ReadingOf(sn), <<"e", "r", "r", "o", "r">>)
\* A step stores the sensor list l and derives the power fragment from it.
SensorsStored(l) == \E s \in SockIds : MessageEvent(s, SensorsResult(l))

\* C28: a power supply status sensor whose reading is available is
\* classified healthy when the reading contains "ok" or "presence",
\* critical when it contains "lost", "failure" or "error" (either, when it
\* contains words of both kinds), and warning when it contains none of
\* these words.
C28_StatusByWords ==
  [][\A l \in SensorLists :
       SensorsStored(l) =>
         \A i \in 1..Len(StatusSensors(l)) :
           LET sn == StatusSensors(l)[i]
               status == latestMetrics'.power.psu_status[i]
           IN  ~NotAvailable(sn) =>
                 \/ SaysHealthy(sn) /\ status = "healthy"
                 \/ SaysCritical(sn) /\ status = "critical"
                 \/ ~SaysHealthy(sn) /\ ~SaysCritical(sn) /\ status = "warning"]_vars
\* C28 witness: the stored list has the status sensors of five supplies:
\* present, present with its supply lost, failing, one whose reading has
\* none of the words and one without a reading; the derived statuses are
\* healthy, healthy, critical, critical, critical.
C28_Witness ==
  /\ ipmiSensors = D.sensorsC
  /\ Len(StatusSensors(D.sensorsC)) = 5
  /\ SaysHealthy(StatusSensors(D.sensorsC)[2]) /\ SaysCritical(StatusSensors(D.sensorsC)[2])
  /\ ~SaysHealthy(StatusSensors(D.sensorsC)[4]) /\ ~SaysCritical(StatusSensors(D.sensorsC)[4])
  /\ latestMetrics.power # JUndef
  /\ latestMetrics.power.psu_status =
       <<"healthy", "healthy", "critical", "critical", "critical">>

\* The cached power fragment was derived from the stored sensor list l.
PowerFrom(l) ==
  /\ ipmiSensors = l /\ latestMetrics.power # JUndef
  /\ latestMetrics.power = mapIPMIPower(l.items, ipmiChassis)

\* C29: for every power supply status sensor whose reading is "N/A", the
\* status derived for that sensor is critical, whatever the other sensors
\* and the chassis record report.
C29_NotAvailableIsCritical ==
  \A l \in SensorLists :
    ipmiSensors = l /\ latestMetrics.power # JUndef =>
      /\ PowerFrom(l)
      /\ \A i \in 1..Len(StatusSensors(l)) :
           NotAvailable(StatusSensors(l)[i]) =>
             latestMetrics.power.psu_status[i] = "critical"
\* C29 witness: the stored list has a status sensor without a reading
\* next to healthy ones; its entry is critical, theirs are healthy.
C29_Witness ==
  /\ PowerFrom(D.sensorsC)
  /\ NotAvailable(StatusSensors(D.sensorsC)[5])
  /\ latestMetrics.power.psu_status[5] = "critical"
  /\ latestMetrics.power.psu_status[1] = "healthy"
\* C29, with power-draw readings: the only status sensor has no reading,
\* a power-draw sensor reports a positive draw; the status sensor's entry
\* is critical, a healthy entry follows it.
C29_BesideDraw ==
  /\ PowerFrom(D.sensorsD)
  /\ NotAvailable(StatusSensors(D.sensorsD)[1])
  /\ latestMetrics.power.psu_status = <<"critical", "critical", "healthy">>

\* The statuses the specification derives from the power-draw sensors
\* (draw > 0 healthy, critical otherwise) and from the chassis record.
ByDraw(l) ==
  MapSeq(DrawSensors(l),
         LAMBDA sn : IF Positive(SensorVal(sn)) THEN "healthy" ELSE "critical")
ByChassis ==
  IF Get(ipmiChassis, "power_fault") \in {JStr("true"), JBool(TRUE)}
  THEN <<"critical">> ELSE <<"healthy">>

\* C30: the power supply statuses come from the power-draw readings only
\* when the list has no status sensor, and from the chassis power-fault
\* flag, as a single entry, only when it has no power-draw sensor either;
\* when it has status sensors the result has exactly one entry per status
\* sensor.
C30_FallbackOrder ==
  \A l \in SensorLists :
    ipmiSensors = l /\ latestMetrics.power # JUndef =>
      LET status == latestMetrics.power.psu_status
      IN  /\ PowerFrom(l)
          /\ latestMetrics.power.psu_count = Len(status)
          /\ IF StatusSensors(l) # <<>> THEN Len(status) = Len(StatusSensors(l))
             ELSE IF DrawSensors(l) # <<>> THEN status = ByDraw(l)
             ELSE status = ByChassis
\* C30 witness: the stored list has one status sensor, without a reading,
\* and two power-draw sensors; the result has three entries.
C30_Witness ==
  /\ PowerFrom(D.sensorsD)
  /\ Len(StatusSensors(D.sensorsD)) = 1 /\ Len(DrawSensors(D.sensorsD)) = 2
  /\ latestMetrics.power.psu_status = <<"critical">> \o ByDraw(D.sensorsD)
  /\ latestMetrics.power.psu_count = 3

\* ------------------------------------------------------------ credentials
\* The authenticate requests sent on a connection.
AuthSent(s) == SelectSeq(wire[s], IsAuthReq)
\* The decoded token reads user:password.
DecodesToPair == HasColon(token.decoded) /\ ~token.dashOne
\* The two parts of the decoded token, before and after its first colon.
UserPart == SubSeq(token.decoded, 1, FirstColon(token.decoded) - 1)
PassPart == SubSeq(token.decoded, FirstColon(token.decoded) + 1, Len(token.decoded))
\* Every authenticate request sent is a login with the decoded pair when
\* Login holds and carries the token unchanged as an API key otherwise.
AuthFormIs(Login) ==
  \A s \in SockIds : \A i \in 1..Len(AuthSent(s)) :
    LET req == AuthSent(s)[i].m
    IN IF Login
       THEN req.method = "auth.login" /\ req.params = <<UserPart, PassPart>>
       ELSE req.method = "auth.login_with_api_key" /\ req.params = <<token.text>>

\* C31 (as stated): the authenticate request is a username/password login
\* exactly when the token decodes to text with a colon and does not start
\* with "1-", and carries the token unchanged as an API key otherwise,
\* whatever the server answered before.
C31_LoginIffColon == AuthFormIs(DecodesToPair)
\* C31 (amended): the authenticate request is a username/password login
\* exactly when the token decodes to text with a colon, does not start
\* with "1-", and both the part before the first colon and the part after
\* it are non-empty; otherwise it carries the token unchanged as an API
\* key, whatever the server answered before.
C31_LoginIffPair ==
  AuthFormIs(DecodesToPair /\ UserPart # <<>> /\ PassPart # <<>>)
\* C31 witness: a token that decodes to a user name and a colon with
\* nothing after it was sent as an API key, on a reconnection, and the
\* server has answered since.
C31_Witness ==
  /\ DecodesToPair /\ PassPart = <<>>
  /\ attempts >= 2 /\ ws # 0 /\ AuthSent(ws) # <<>>
  /\ AuthSent(ws)[1].m.method = "auth.login_with_api_key"
  /\ AuthSent(ws)[1].m.params = <<token.text>>
  /\ \E i \in 1..Len(wire[ws]) : IsIn(wire[ws][i]) /\ IsAuthResult(wire[ws][i].m)
\* C31, the login: a token that decodes to user:password was sent as a login.
C31_LoginSent ==
  /\ ws # 0 /\ AuthSent(ws) # <<>>
  /\ AuthSent(ws)[1].m.method = "auth.login"
  /\ AuthSent(ws)[1].m.params = << <<"u">>, <<"p">> >>

\* ----------------------------------------------------------- voltage rails
\* The sensor's name has the rail's token and names a dual or battery
\* variant of the rail.
IsVariantOf(sn, rail) ==
  /\ includes(SensorName(sn), rail)
  /\ includes(SensorName(sn), T.dual) \/ includes(SensorName(sn), T.batt)
\* The level of a rail when only the sensors of the rail itself count: the
\* value of the last of them, 0 without any.
RailProper(l, rail) ==
  LastOf(l.items, LAMBDA sn : includes(SensorName(sn), rail) /\ ~IsVariantOf(sn, rail),
         SensorVal, JNum(0))

\* C32: a sensor whose name has a rail's token but names a dual or battery
\* variant of it gives its value to none of the 3.3v, 5v and 12v rails:
\* each rail has the value of the last sensor of the rail proper.
C32_NoVariantOnRail ==
  \A l \in SensorLists :
    ipmiSensors = l /\ latestMetrics.power # JUndef =>
      /\ PowerFrom(l)
      /\ latestMetrics.power.voltage_levels.v3_3 = RailProper(l, T.v3_3)
      /\ latestMetrics.power.voltage_levels.v5 = RailProper(l, T.v5)
      /\ latestMetrics.power.voltage_levels.v12 = RailProper(l, T.v12)
\* C32 witness: the stored list has a 12V sensor reading 12 followed by a
\* 12V_DUAL sensor reading 11; the 12v rail shows 11, while the 5v and
\* 3.3v rails show the values of their own sensors, not of the variants
\* that follow them.
C32_Witness ==
  /\ PowerFrom(D.sensorsB)
  /\ \E i \in 1..Len(D.sensorsB.items) : IsVariantOf(D.sensorsB.items[i], T.v12)
  /\ RailProper(D.sensorsB, T.v12) = JNum(12)
  /\ latestMetrics.power.voltage_levels = 
       [v3_3 |-> JNum(3), v5 |-> JNum(5), v12 |-> JNum(11),
        v3_3_fluctuation |-> 0, v5_fluctuation |-> 0, v12_fluctuation |-> 0]

\* ------------------------------------------------- readings not available
\* The cached environment was derived from the stored sensor list l.
EnvFrom(l) ==
  /\ ipmiSensors = l /\ latestEnvironment # EmptyObject
  /\ latestEnvironment = mapIPMIEnvironment(l.items, ipmiChassis)
\* The last sensor of kind P in the list has no reading.
LastNotAvailable(l, P(_)) ==
  LET hits == {i \in 1..Len(l.items) : P(l.items[i])}
  IN hits # {} /\ NotAvailable(l.items[MaxOf(hits)])
\* The aggregates taken from sensors without a reading are zero in the
\* power fragment: watts, rails, and the speed of every such fan.
PowerZeroes(l) ==
  LET pw == latestMetrics.power
      fanSensors == SelectSeq(l.items, IsCpuFan) \o SelectSeq(l.items, IsCaseFan)
      fans == pw.fans.cpu_fans \o pw.fans.case_fans
  IN  /\ LastNotAvailable(l, IsPowerSensor) => pw.power_consumption_watts = JNum(0)
      /\ LastNotAvailable(l, IsRail33) => pw.voltage_levels.v3_3 = JNum(0)
      /\ LastNotAvailable(l, IsRail5) => pw.voltage_levels.v5 = JNum(0)
      /\ LastNotAvailable(l, IsRail12) => pw.voltage_levels.v12 = JNum(0)
      /\ Len(fans) = Len(fanSensors)
      /\ \A i \in 1..Len(fanSensors) :
           NotAvailable(fanSensors[i]) => fans[i].current_rpm = JNum(0)
\* The same for the environment: fan speeds and the three temperatures,
\* the ambient one then being 22.
EnvZeroes(l) ==
  LET env == latestEnvironment
      fanSensors == SelectSeq(l.items, IsCpuFan) \o SelectSeq(l.items, IsCaseFan)
  IN  /\ Len(env.cooling.fans) = Len(fanSensors)
      /\ \A i \in 1..Len(fanSensors) :
           NotAvailable(fanSensors[i]) => env.cooling.fans[i].current_rpm = JNum(0)
      /\ LastNotAvailable(l, IsAmbient) => env.temperature.ambient_celsius = JNum(22)
TempZeroes(l) ==
  LET env == latestEnvironment
  IN  /\ LastNotAvailable(l, IsIntake) => env.temperature.intake_celsius = JNum(0)
      /\ LastNotAvailable(l, IsExhaust) => env.temperature.exhaust_celsius = JNum(0)

\* C33: a sensor whose reading is "N/A" contributes zero to every aggregate
\* derived from it: power watts, voltage rails, fan speeds, and the intake,
\* exhaust and ambient temperatures (ambient then being 22), never an
\* undefined or non-numeric value.
C33_NotAvailableIsZero ==
  \A l \in SensorLists :
    ipmiSensors = l /\ latestMetrics.power # JUndef =>
      /\ PowerFrom(l) /\ EnvFrom(l)
      /\ PowerZeroes(l) /\ EnvZeroes(l) /\ TempZeroes(l)
\* C33 witness: the stored list has power, 12V, fan, exhaust and ambient
\* sensors reading "N/A"; watts, rail and fan speed are 0, ambient is 22,
\* and the exhaust temperature is undefined.
C33_Witness ==
  /\ PowerFrom(D.sensorsD) /\ EnvFrom(D.sensorsD)
  /\ LastNotAvailable(D.sensorsD, IsPowerSensor)
  /\ LastNotAvailable(D.sensorsD, IsRail12)
  /\ LastNotAvailable(D.sensorsD, IsExhaust)
  /\ LastNotAvailable(D.sensorsD, IsAmbient)
  /\ latestMetrics.power.power_consumption_watts = JNum(0)
  /\ latestMetrics.power.voltage_levels.v12 = JNum(0)
  /\ latestEnvironment.cooling.fans # <<>>
  /\ latestEnvironment.cooling.fans[1].current_rpm = JNum(0)
  /\ latestEnvironment.temperature.ambient_celsius = JNum(22)
  /\ latestEnvironment.temperature.exhaust_celsius = JUndef

\* ------------------------------------------------------ frames that throw
\* The connector's cached data.
Cached == <<latestMetrics, latestEnvironment, ipmiSensors, ipmiChassis>>

\* C34: a step that delivers a frame whose handling throws leaves the
\* cached data (latestMetrics, latestEnvironment, the stored sensor list
\* and the chassis record) as it was, and a well-formed push delivered
\* afterwards is processed as ever: the cache holds the CPU load, memory
\* and network mapped from it.
C34_ThrowKeepsCache ==
  [][ /\ \A s \in SockIds : \A m \in Malformed :
           MessageEvent(s, m) => Cached' = Cached
      /\ \A s \in SockIds : \A m \in Pushes :
           MessageEvent(s, m) =>
             /\ latestMetrics'.cpu # JUndef
             /\ latestMetrics'.cpu.utilization_percent
                  = PushedCpu(m.fields).utilization_percent
             /\ latestMetrics'.memory = PushedMemory(m.fields)
             /\ latestMetrics'.network = PushedNetwork(m.fields) ]_vars
\* C34 witness: a sensor-list result that is no list is stored although
\* its handling threw, and the push received last, a well-formed one, left
\* no trace in the cache.
C34_Witness ==
  /\ ws # 0 /\ Len(wire[ws]) >= 2
  /\ ipmiSensors = TextSensorsResult.result
  /\ wire[ws][Len(wire[ws])] = In(PushMsg("added", D.pushCold))
  /\ latestMetrics.memory # PushedMemory(D.pushCold)
  /\ latestMetrics.cpu = JUndef

\* ------------------------------------------------- connect() at any moment
\* C35: whatever the sequence of connect() calls and socket events, a
\* chassis-info or sensor-list poll request is sent on a socket only after
\* an authentication success was received on that same socket.
C35_PollOnlyAfterAuth ==
  \A s \in SockIds : \A i \in 1..Len(wire[s]) :
    (IsOut(wire[s][i]) /\ wire[s][i].m \in {ChassisReq, SensorsReq})
      => \E j \in 1..(i - 1) : wire[s][j] = In(AuthOk)
\* C35 witness: connect() was called on an open, authenticated connection;
\* the new socket opened and the poll timer of the old one ticked: both
\* poll requests are on the new socket's wire, which has received nothing.
C35_Witness ==
  /\ ws # 0 /\ sock[ws].readyState = "OPEN" /\ isAuthenticated /\ pollTimers = 1
  /\ \A i \in 1..Len(wire[ws]) : ~IsIn(wire[ws][i])
  /\ Has(wire[ws], Out(ChassisReq)) /\ Has(wire[ws], Out(SensorsReq))

\* ------------------------------------------- collections that overlap
\* The call i of the pending ones ran to its end in this step and stored
\* its snapshot in the cache.
Stores(i) ==
  /\ i \in 1..Len(inflight)
  /\ lastCycle' = "ok" /\ Len(inflight') < Len(inflight)
  /\ inflight' = Settled(inflight, i, TRUE)

\* C36: a collection that started before another one never stores its
\* snapshot in the cache after that other one has stored its own.
C36_NoOlderAfterNewer ==
  [][\A i \in 1..Len(inflight) : Stores(i) => ~inflight[i].overtaken]_vars
\* C36 witness: two collections overlap and the one called later has
\* stored its snapshot while the earlier one still awaits its readings.
C36_Witness ==
  /\ currentMetrics # JNull /\ lastCycle = "ok"
  /\ \E i \in 1..Len(inflight) : inflight[i].overtaken
\* C36, the order that does hold: the collection timestamp of the cached
\* snapshot, taken after the await, never decreases.
C36_StampNeverBack ==
  [][(currentMetrics # JNull /\ currentMetrics' # JNull)
       => getTime(currentMetrics.meta.collection_timestamp)
            <= getTime(currentMetrics'.meta.collection_timestamp)]_vars

\* ------------------------------------------------- the transport closes
\* The step is a run of onClose: it is the only place that schedules a
\* reconnection.
Closes == Len(reconnectTimers') > Len(reconnectTimers)

\* The merged hardware is the local one overlaid with the appliance metrics.
WithApplianceValues(local, real, merged) == merged = mergedHardware(local, real)

\* C37: a transport closure leaves latestMetrics, latestEnvironment, the
\* stored sensor list, the chassis record and the hostname as they were and
\* changes only the connected and authenticated flags and the poll timer
\* (and schedules the reconnection); while disconnected the cached data
\* stay and every collection merges them into its snapshot.
C37_CloseKeepsData ==
  [][ /\ Closes =>
           /\ Cached' = Cached /\ hostname' = hostname
           /\ ~isConnected' /\ ~isAuthenticated'
           /\ ipmiInterval' # "live" /\ pollTimers' = 0
           /\ token' = token /\ ws' = ws /\ attempts' = attempts
           /\ reconnectTimers' = Append(reconnectTimers, ReconnectDelayMs)
      /\ ~isConnected =>
           /\ Cached' = Cached /\ hostname' = hostname
           /\ Merges(WithApplianceValues) ]_vars
\* C37 witness: the connection closed after the appliance had pushed its
\* metrics; the poll timer is gone, the pushed metrics are still held and
\* the snapshot collected this very second carries them.
C37_Witness ==
  /\ ~isConnected /\ ~isAuthenticated /\ reconnectTimers # <<>>
  /\ ipmiInterval = "cleared" /\ pollTimers = 0
  /\ latestMetrics.cpu # JUndef
  /\ Merged(WithApplianceValues)
  /\ currentMetrics.meta.collection_timestamp = toISOString(now)
  /\ now > StartMs
  /\ latestMetrics.memory # JUndef
  /\ currentMetrics.data.hardware.memory = latestMetrics.memory

\* ------------------------------------------------- a cycle that fails
\* The step is a collectMetrics() call that ends in its catch block.
Fails == lastCycle' = "failed" /\ Len(inflight') < Len(inflight)

\* C38: a collection cycle that fails leaves the snapshot cache and the
\* four trend series exactly as they were, and the loop goes on: after a
\* failure the interval still calls collectMetrics() and a call that awaits
\* its readings can still run to its end.
C38_FailedCycleKeepsAll ==
  /\ [][Fails => /\ currentMetrics' = currentMetrics
                 /\ trendHistory' = trendHistory
                 /\ isCollecting' /\ ~crashed']_vars
  /\ [](lastCycle = "failed" =>
          /\ now < StartMs + MaxTicks * CollectIntervalMs => ENABLED CollectTick
          /\ collecting > 0 => ENABLED CollectResume)
\* C38 witness: the first cycle stored its snapshot before the first tick,
\* one later cycle of the loop failed, and every other one has stored its
\* snapshot since, the last of them after the failure.
C38_Witness ==
  /\ \A r \in Readers : calls[r].pc = "idle"
  /\ inflight = <<>> /\ lastCycle = "ok"
  /\ now = StartMs + MaxTicks * CollectIntervalMs
  /\ Len(trendHistory.cpu) = MaxTicks
  /\ trendHistory.cpu[1].timestamp = toISOString(StartMs)
  /\ currentMetrics.meta.collection_timestamp = toISOString(now)

\* ------------------------------------------------ the four series together
\* C39: the four trend series have the same length, entries at the same
\* index carry the same timestamp, and the timestamps of a series never
\* decrease.
C39_SeriesAligned ==
  \A k \in TrendKeys :
    /\ Len(trendHistory[k]) = Len(trendHistory.cpu)
    /\ \A i \in 1..Len(trendHistory[k]) :
         /\ trendHistory[k][i].timestamp = trendHistory.cpu[i].timestamp
         /\ i > 1 => getTime(trendHistory[k][i - 1].timestamp)
                        <= getTime(trendHistory[k][i].timestamp)
\* C39 witness: the series were full and cycles of a later second pushed
\* their samples: the oldest entries are gone and the newest ones carry
\* the clock of the cycles that pushed them.
C39_Witness ==
  /\ Len(trendHistory.cpu) = MAX_HISTORY
  /\ trendHistory.network[MAX_HISTORY].timestamp = toISOString(now)
  /\ now > StartMs /\ collecting = 0 /\ lastCycle = "ok"
  /\ getTime(trendHistory.disk[1].timestamp) > StartMs - MAX_HISTORY * CollectIntervalMs
  /\ getTime(trendHistory.disk[MAX_HISTORY - 1].timestamp) <= StartMs

\* ------------------------------------------------- the snapshot's hostname
\* The step installs a snapshot collected from the readings p.
Collects(p) == currentMetrics' # currentMetrics /\ currentMetrics' = Snapshot(p, Self, now)

\* The hostname of a system.info result.
HostnameIn(m) == Get(m.result, "hostname")

\* The snapshot installed by the step is named after the override when it
\* is set, else after the appliance when the connector knows its hostname,
\* else after the local OS, and never by an empty value.
NamedByPriority ==
  \A p \in Probes : Collects(p) =>
    /\ Truthy(currentMetrics'.meta.hostname)
    /\ currentMetrics'.meta.hostname =
         IF Truthy(p.env) THEN p.env
         ELSE IF Truthy(hostname) THEN hostname ELSE JStr(p.hostname)

\* C40: the snapshot's hostname is the SERVER_HOSTNAME override when set;
\* otherwise the hostname the appliance gave last in a system.info result,
\* otherwise the hostname of the local OS, never an empty value.  The
\* hostname the appliance gave last stays known until a system.info result
\* gives another one: neither a closure, nor a reconnection, nor a result
\* without a hostname takes it away.
C40_HostnameByPriority ==
  [][ /\ NamedByPriority
      /\ \A s \in SockIds, m \in IdentityMsgs :
           Appended(s) = <<In(m)>> /\ Truthy(HostnameIn(m)) => hostname' = HostnameIn(m)
      /\ Truthy(hostname) /\ hostname' # hostname =>
           \E s \in SockIds, m \in IdentityMsgs :
             /\ Appended(s) = <<In(m)>>
             /\ Truthy(HostnameIn(m)) /\ hostname' = HostnameIn(m) ]_vars
\* C40 witness: a snapshot was collected under the hostname the appliance
\* had given; the connection has dropped and come back since, the result
\* on the new connection carries no hostname, and the connector no longer
\* knows any: the next snapshot will name the local host.
C40_Witness ==
  /\ currentMetrics # JNull /\ currentMetrics.meta.hostname = JStr("nas")
  /\ ws # 0 /\ Has(wire[ws], In(SysInfoResult(JObj([version |-> JStr("25.04")]))))
  /\ ~Truthy(hostname)
  /\ collecting > 0
\* C40, as the code has it: the priority is the stated one, and a closure
\* or a reconnection leaves the connector's hostname alone, but every
\* system.info result overwrites it, with a hostname or without.
C40_HostnameByField ==
  [][ /\ NamedByPriority
      /\ hostname' # hostname =>
           \E s \in SockIds, m \in IdentityMsgs : Appended(s) = <<In(m)>>
      /\ \A s \in SockIds, m \in IdentityMsgs :
           Appended(s) = <<In(m)>> => hostname' = HostnameIn(m) ]_vars
====
